---- MODULE Spec2Model ----
(***************************************************************************)
(* Request admission, error sanitising and session handling of the         *)
(* azure-logs-mcp server: the in-memory RateLimiter (utils), the           *)
(* searchLogs tool handler (server-common), the searchLogs query function  *)
(* and the Lambda handler (aws-lambda/index.ts) and the /mcp route of the  *)
(* HTTP server with its session registry (http-server.ts).                 *)
(***************************************************************************)
EXTENDS Integers, Sequences, FiniteSets, TLC

(***************************************************************************)
(* Bounds of the model.                                                    *)
(***************************************************************************)
\* constructor arguments of the RateLimiter under analysis
maxRequests == 2
windowMs == 2
\* the clock (Date.now()) is explored up to this reading
MaxClock == 5
\* number of checkLimit calls recorded per client: one full window, one
\* rejection and the opening of the next window
MaxHist == maxRequests + 2

Undef == "undefined"

\* invocations of the searchLogs tool handler that may be in progress at once
NumCalls == 1

\* requests to the /mcp route that may be in progress at once
NumReqs == 1
\* StreamableHTTPServerTransport objects the HTTP server constructs in a run
MaxTransports == 3

VARIABLES
  now,        \* the reading of Date.now()
  limits,     \* RateLimiter.limits: client id -> [count, resetTime]
  hist,       \* per client id: the checkLimit calls made, <<clock reading, result>>
  serverType, \* the argument of createSearchLogsToolHandler
  processEnv, \* process.env: the required keys that have a non-empty value
  calls,      \* the invocations of the tool handler
  admittedBy, \* the caller identities that have had a call admitted
  lam,        \* the invocation of the Lambda handler
  transports, \* the session registry of the HTTP server: token -> transport
  transportObjs, \* the StreamableHTTPServerTransport objects constructed
  mcp,        \* the requests to the /mcp route
  uuids,      \* the number of randomUUID() calls made
  bound,      \* per token: the transport and server registered at creation
  proc,       \* the HTTP server process: running, shutting down or exited
  pair,       \* two invocations of the tool handler that differ in the term
  boot,       \* the start of a server: startStdioServer or startHttpServer
  probe       \* a call of extractClientId or sanitizeError made on its own

toolVars == <<serverType, processEnv, calls, admittedBy>>
httpVars == <<transports, transportObjs, mcp, uuids, bound, proc>>
vars == <<now, limits, hist, serverType, processEnv, calls, admittedBy, lam,
          transports, transportObjs, mcp, uuids, bound, proc, pair, boot,
          probe>>

(***************************************************************************)
(* RateLimiter                                                             *)
(***************************************************************************)
\* a client id is a string, kept as the sequence of its pieces
ClientIds == {<<"default">>, <<"cA">>}

NoLimits == [c \in {} |-> [count |-> 0, resetTime |-> 0]]

\* Map.set(key, value)
MapSet(m, k, v) == [x \in (DOMAIN m) \cup {k} |-> IF x = k THEN v ELSE m[x]]

\* Map.delete(key)
MapDelete(m, k) == [x \in (DOMAIN m) \ {k} |-> m[x]]

\* the test "!entry || now > entry.resetTime" with ">=" in place of ">"
windowExpired_geq(lim, c, t) ==
  \/ c \notin DOMAIN lim
  \/ t >= lim[c].resetTime

\* !entry || now > entry.resetTime
windowExpired(lim, c, t) ==
  \/ c \notin DOMAIN lim
  \/ t > lim[c].resetTime

\* checkLimit measuring the new window from the end of the old one
checkLimit_fromOldReset(lim, c, t) ==
  IF windowExpired(lim, c, t)
    THEN [allowed |-> TRUE,
          limits  |-> MapSet(lim, c,
                        [count     |-> 1,
                         resetTime |-> IF c \in DOMAIN lim
                                         THEN lim[c].resetTime + windowMs
                                         ELSE t + windowMs])]
    ELSE IF lim[c].count >= maxRequests
      THEN [allowed |-> FALSE, limits |-> lim]
      ELSE [allowed |-> TRUE,
            limits  |-> MapSet(lim, c, [count     |-> lim[c].count + 1,
                                        resetTime |-> lim[c].resetTime])]

\* checkLimit starting from an empty map when it opens a window
checkLimit_resetsAll(lim, c, t) ==
  IF windowExpired(lim, c, t)
    THEN [allowed |-> TRUE,
          limits  |-> MapSet(NoLimits, c, [count |-> 1, resetTime |-> t + windowMs])]
    ELSE IF lim[c].count >= maxRequests
      THEN [allowed |-> FALSE, limits |-> lim]
      ELSE [allowed |-> TRUE,
            limits  |-> MapSet(lim, c, [count     |-> lim[c].count + 1,
                                        resetTime |-> lim[c].resetTime])]

\* checkLimit whose increment is lost: the call is admitted on the count it
\* read and the entry is left as it was
checkLimit_lostIncrement(lim, c, t) ==
  IF windowExpired(lim, c, t)
    THEN [allowed |-> TRUE,
          limits  |-> MapSet(lim, c, [count |-> 1, resetTime |-> t + windowMs])]
    ELSE IF lim[c].count >= maxRequests
      THEN [allowed |-> FALSE, limits |-> lim]
      ELSE [allowed |-> TRUE, limits |-> lim]

\* checkLimit counting the rejected call too
checkLimit_countsRejected(lim, c, t) ==
  IF windowExpired(lim, c, t)
    THEN [allowed |-> TRUE,
          limits  |-> MapSet(lim, c, [count |-> 1, resetTime |-> t + windowMs])]
    ELSE [allowed |-> lim[c].count < maxRequests,
          limits  |-> MapSet(lim, c, [count     |-> lim[c].count + 1,
                                      resetTime |-> lim[c].resetTime])]

\* checkLimit(clientId) at clock reading t: the value returned and the map
\* it leaves behind
checkLimit(lim, c, t) ==
  IF windowExpired(lim, c, t)
    THEN [allowed |-> TRUE,
          limits  |-> MapSet(lim, c, [count |-> 1, resetTime |-> t + windowMs])]
    ELSE IF lim[c].count >= maxRequests
      THEN [allowed |-> FALSE, limits |-> lim]
      ELSE [allowed |-> TRUE,
            limits  |-> MapSet(lim, c, [count     |-> lim[c].count + 1,
                                        resetTime |-> lim[c].resetTime])]

\* a sweep that also removes the entries whose window ends at t
cleanup_geq(lim, t) ==
  [c \in {x \in DOMAIN lim : ~(t >= lim[x].resetTime)} |-> lim[c]]

\* a sweep that deletes nothing
cleanup_none(lim, t) == lim

\* getUsage(clientId) read at clock t: the count, the reset time and what
\* remains; an absent or expired entry reads as unused
getUsage(lim, c, t) ==
  IF c \notin DOMAIN lim \/ t > lim[c].resetTime
  THEN [count |-> 0, resetTime |-> t + windowMs, remaining |-> maxRequests]
  ELSE [count |-> lim[c].count, resetTime |-> lim[c].resetTime,
        remaining |-> IF maxRequests - lim[c].count > 0
                      THEN maxRequests - lim[c].count ELSE 0]

\* cleanup() at clock reading t
cleanup(lim, t) ==
  [c \in {x \in DOMAIN lim : ~(t > lim[x].resetTime)} |-> lim[c]]

\* clearLimit(clientId)
clearLimit(lim, c) == MapDelete(lim, c)

(***************************************************************************)
(* JavaScript values and strings                                           *)
(*                                                                         *)
(* A value is a record with its kind.  A message is a sequence of tokens   *)
(* (its text cut into pieces); a search term is a run-length string, a     *)
(* sequence of runs [ch, n] standing for n times the character ch.         *)
(***************************************************************************)
JUndef == [kind |-> "undefined"]
JStr(v) == [kind |-> "string", val |-> v]
JNum(n) == [kind |-> "number", val |-> n]
JArr(v) == [kind |-> "array", val |-> v]

\* JavaScript truthiness of a value
Truthy(x) ==
  CASE x.kind = "undefined" -> FALSE
    [] x.kind = "string"    -> x.val # <<>>
    [] x.kind = "number"    -> x.val # 0
    [] OTHER                -> TRUE

\* a || b
OrElse(a, b) == IF Truthy(a) THEN a ELSE b

\* a token of a message that is a plain piece of text
W(s) == [w |-> s]
Words(ss) == [i \in DOMAIN ss |-> W(ss[i])]

\* String.prototype.includes on messages
Includes(msg, pat) ==
  \E i \in 0 .. (Len(msg) - Len(pat)) : SubSeq(msg, i + 1, i + Len(pat)) = pat

R(c, k) == [ch |-> c, n |-> k]

Digits == {"0", "1", "2", "3", "4", "5", "6", "7", "8", "9"}
Letters ==
  {"a", "b", "c", "d", "e", "f", "g", "h", "i", "j", "k", "l", "m", "n", "o",
   "p", "q", "r", "s", "t", "u", "v", "w", "x", "y", "z",
   "A", "B", "C", "D", "E", "F", "G", "H", "I", "J", "K", "L", "M", "N", "O",
   "P", "Q", "R", "S", "T", "U", "V", "W", "X", "Y", "Z"}
\* the class [A-Za-z0-9\-_.] of searchTermRegex
TermChars == Letters \cup Digits \cup {"-", "_", "."}
\* the class [\w\-.] of sanitizeInput
WordDashDot == Letters \cup Digits \cup {"_"} \cup {"-", "."}
WhiteSpace == {" ", "\t", "\n"}

\* String.length of a run-length string
RECURSIVE StrLen(_)
StrLen(s) == IF s = <<>> THEN 0 ELSE Head(s).n + StrLen(Tail(s))

RECURSIVE TrimStart(_)
TrimStart(s) ==
  IF s # <<>> /\ Head(s).ch \in WhiteSpace THEN TrimStart(Tail(s)) ELSE s

RECURSIVE TrimEnd(_)
TrimEnd(s) ==
  IF s # <<>> /\ s[Len(s)].ch \in WhiteSpace
    THEN TrimEnd(SubSeq(s, 1, Len(s) - 1))
    ELSE s

\* String.prototype.trim
Trim(s) == TrimEnd(TrimStart(s))

\* adjacent runs of one character are one run
RECURSIVE Merge(_)
Merge(s) ==
  IF Len(s) < 2 THEN s
  ELSE IF s[1].ch = s[2].ch
    THEN Merge(<<R(s[1].ch, s[1].n + s[2].n)>> \o SubSeq(s, 3, Len(s)))
    ELSE <<s[1]>> \o Merge(Tail(s))

\* input.replace(/[^\w\-.]/g, '')
StripUnsafe(s) == Merge(SelectSeq(s, LAMBDA r : r.ch \in WordDashDot))

\* /^[A-Za-z0-9\-_.]+$/.test(s)
searchTermRegex(s) == s # <<>> /\ \A i \in 1 .. Len(s) : s[i].ch \in TermChars

(***************************************************************************)
(* Errors                                                                  *)
(***************************************************************************)
Err(c, m) == [cls |-> c, message |-> m]
ValidationError(m) == Err("ValidationError", m)
ConfigurationError(m) == Err("ConfigurationError", m)
QueryError(m, orig) ==
  [cls |-> "QueryError", message |-> m, originalError |-> orig]

\* error instanceof Error
IsError(e) == e.cls # "NonError"

MsgRequired ==
  Words(<<"Search", "term", "is", "required", "and", "must", "be", "a", "string">>)
MsgEmpty == Words(<<"Search", "term", "cannot", "be", "empty">>)
MsgFormat ==
  Words(<<"Invalid", "search", "term", "format.", "Only", "alphanumeric",
          "characters,", "hyphens,", "underscores,", "and", "dots", "are",
          "allowed.">>)
MsgNotString == Words(<<"Input", "must", "be", "a", "string">>)
MsgBadFormat == Words(<<"Invalid", "search", "term", "format">>)
MsgTooLong == Words(<<"Search", "term", "too", "long">>)
MsgQueryFailed ==
  Words(<<"Failed", "to", "query", "logs.", "Please", "check", "your",
          "configuration", "and", "try", "again.">>)
MsgGeneric ==
  Words(<<"An", "error", "occurred", "while", "processing", "your", "request.",
          "Please", "try", "again", "later.">>)
MsgRateLimit ==
  Words(<<"Rate", "limit", "exceeded.", "Please", "wait", "before", "making",
          "another", "request.">>)
MsgFailedPrefix == Words(<<"Failed", "to", "fetch", "logs:">>)

Thrown(e) == [ok |-> FALSE, error |-> e]
Returned(v) == [ok |-> TRUE, val |-> v]

(***************************************************************************)
(* searchLogs (aws-lambda/index.ts; the tool handler imports the same      *)
(* function from appinsights)                                              *)
(***************************************************************************)
MaxTermLen == 100

\* sanitizeInput without its test of the length
sanitizeInput_noMax(input) ==
  LET sanitized == StripUnsafe(input) IN
    IF StrLen(sanitized) = 0 THEN Thrown(ValidationError(MsgBadFormat))
    ELSE Returned(sanitized)

\* sanitizeInput(input), input a string
sanitizeInput(input) ==
  LET sanitized == StripUnsafe(input) IN
    IF StrLen(sanitized) = 0 THEN Thrown(ValidationError(MsgBadFormat))
    ELSE IF StrLen(sanitized) > MaxTermLen THEN Thrown(ValidationError(MsgTooLong))
    ELSE Returned(sanitized)

\* a validator whose messages quote the term
validateSearchTerm_echo(searchTerm) ==
  IF ~Truthy(searchTerm) \/ searchTerm.kind # "string"
    THEN Thrown(ValidationError(MsgRequired))
  ELSE LET trimmed == Trim(searchTerm.val) IN
    IF StrLen(trimmed) = 0 THEN Thrown(ValidationError(MsgEmpty))
    ELSE IF ~searchTermRegex(trimmed)
      THEN Thrown(ValidationError(MsgFormat \o <<[term |-> trimmed]>>))
    ELSE Returned(trimmed)

\* validateSearchTerm(searchTerm), searchTerm any value
validateSearchTerm(searchTerm) ==
  IF ~Truthy(searchTerm) \/ searchTerm.kind # "string"
    THEN Thrown(ValidationError(MsgRequired))
  ELSE LET trimmed == Trim(searchTerm.val) IN
    IF StrLen(trimmed) = 0 THEN Thrown(ValidationError(MsgEmpty))
    ELSE IF ~searchTermRegex(trimmed) THEN Thrown(ValidationError(MsgFormat))
    ELSE Returned(trimmed)

Required ==
  <<"AZURE_CLIENT_ID", "AZURE_TENANT_ID", "AZURE_CLIENT_SECRET",
    "AZURE_MONITOR_WORKSPACE_ID">>
RequiredKeys == {Required[i] : i \in 1 .. Len(Required)}

\* validateEnvironment(env), env the set of keys with a non-empty value
validateEnvironment(env) ==
  LET missing == SelectSeq(Required, LAMBDA k : k \notin env) IN
    IF Len(missing) > 0
      THEN Thrown(ConfigurationError(
             Words(<<"Missing", "required", "environment", "variables:">> \o missing)))
      ELSE Returned(env)

\* a default parameter value: used when the argument is undefined
Default(x, d) == IF x.kind = "undefined" THEN d ELSE x

DefaultLimit == 50
\* 'P7D'
DefaultDuration == <<"P", "7", "D">>

\* searchLogs up to its await: the arguments of queryWorkspace, or the
\* error thrown before the query is made
searchLogs_prepare(searchTerm, limitArg, durationArg, env) ==
  LET limit == Default(limitArg, JNum(DefaultLimit))
      duration == Default(durationArg, JStr(DefaultDuration))
      v == validateSearchTerm(searchTerm) IN
    IF ~v.ok THEN v
    ELSE LET s == sanitizeInput(v.val) IN
      IF ~s.ok THEN s
      ELSE LET c == validateEnvironment(env) IN
        IF ~c.ok THEN c
        ELSE Returned([workspaceId |-> "AZURE_MONITOR_WORKSPACE_ID",
                       searchTerm  |-> s.val,
                       limit       |-> limit,
                       duration    |-> duration])

\* the entry the catch block of searchLogs writes with console.error
searchLogs_logEntry(e) ==
  [sink    |-> "console.error",
   message |-> Words(<<"Error", "querying", "Application", "Insights:">>),
   meta    |-> [message    |-> IF IsError(e) THEN e.message ELSE Words(<<"Unknown", "error">>),
                searchTerm |-> Words(<<"[REDACTED]">>),
                type       |-> IF IsError(e) THEN e.cls ELSE "Unknown"]]

\* the catch block of searchLogs rethrowing every error as it is
searchLogs_catch_rethrow(e) == e

\* the catch block of searchLogs: what it throws for the error e
searchLogs_catch(e) ==
  IF e.cls \in {"ValidationError", "ConfigurationError"}
    THEN e
    ELSE QueryError(MsgQueryFailed, e)

(***************************************************************************)
(* server-common: sanitizeError and the searchLogs tool handler            *)
(***************************************************************************)
\* the level of a logger made by createLogger with LOG_LEVEL unset
LogLevelINFO == 2

\* a logger that writes warnings and information only
loggerWrite_noErrors(log, level, entry) ==
  IF level >= 1 /\ level <= LogLevelINFO THEN Append(log, entry) ELSE log

\* SimpleLogger.log: the entry is written when level <= this.level
loggerWrite(log, level, entry) ==
  IF level <= LogLevelINFO THEN Append(log, entry) ELSE log

SafePatterns ==
  {Words(<<"Invalid", "search", "term">>), Words(<<"Search", "term">>),
   Words(<<"validation">>)}

\* sanitizeError hiding every message
sanitizeError_hideAll(e) == MsgGeneric

\* the message sanitizeError returns
sanitizeError(e) ==
  IF \/ e.cls = "ValidationError"
     \/ e.cls = "ConfigurationError"
     \/ (IsError(e) /\ \E pat \in SafePatterns : Includes(e.message, pat))
    THEN e.message
    ELSE MsgGeneric

\* the entry sanitizeError writes with logger.error
sanitizeError_logEntry(e, context) ==
  [sink    |-> "logger.error",
   message |-> Words(<<"Error", "in", context>>),
   meta    |-> [message |-> e.message,
                stack   |-> IsError(e),
                type    |-> IF IsError(e) THEN e.cls ELSE "Unknown"]]

\* RateLimiter.extractClientId(req)
NoReq == [present |-> FALSE]
Req(x, m, i, a) ==
  [present |-> TRUE, xClientId |-> x, mcpClientId |-> m, ip |-> i,
   remoteAddress |-> a]

\* extractClientId looking at the network address before the headers
extractClientId_ipFirst(req) ==
  IF ~req.present THEN <<"default">>
  ELSE LET ip == OrElse(req.ip, req.remoteAddress) IN
    IF Truthy(ip) THEN <<"ip:">> \o ip.val
    ELSE LET clientIdHeader == OrElse(req.xClientId, req.mcpClientId) IN
      IF Truthy(clientIdHeader) /\ clientIdHeader.kind = "string"
        THEN clientIdHeader.val
        ELSE <<"ip:", "unknown">>

extractClientId(req) ==
  IF ~req.present THEN <<"default">>
  ELSE LET clientIdHeader == OrElse(req.xClientId, req.mcpClientId) IN
    IF Truthy(clientIdHeader) /\ clientIdHeader.kind = "string"
      THEN clientIdHeader.val
      ELSE LET ip == OrElse(req.ip, OrElse(req.remoteAddress, JStr(<<"unknown">>)))
           IN <<"ip:">> \o ip.val

TextContent(t) == [type |-> "text", text |-> t]

RateLimitEnvelope ==
  [content |-> <<TextContent(MsgRateLimit)>>, isError |-> TRUE]

\* the envelope the catch block of the tool handler returns for the error e
ErrorEnvelope(e) ==
  [content |-> <<TextContent(MsgFailedPrefix \o sanitizeError(e))>>,
   isError |-> TRUE]

\* logs.tables?.[0]?.rows?.length || 0
resultCount(logs) ==
  IF Len(logs.tables) > 0 THEN Len(logs.tables[1].rows) ELSE 0

\* a success envelope of two elements, the summary and the JSON payload,
\* with isError: false
SuccessEnvelope_twoElements(searchTerm, logs) ==
  [content |->
     <<TextContent(Words(<<"Successfully", "retrieved">>)
                   \o <<[num |-> resultCount(logs)]>>
                   \o Words(<<"log", "entries", "for", "search", "term:">>)
                   \o <<[term |-> searchTerm.val]>>),
       TextContent(<<[json |-> logs]>>)>>,
   isError |-> FALSE]

\* the envelope of the success path: one text element, no isError field
SuccessEnvelope(searchTerm, logs) ==
  [content |->
     <<TextContent(Words(<<"Successfully", "retrieved">>)
                   \o <<[num |-> resultCount(logs)]>>
                   \o Words(<<"log", "entries", "for", "search", "term:">>)
                   \o <<[term |-> searchTerm.val]>>
                   \o <<[json |-> logs]>>)>>]

(***************************************************************************)
(* The tool handler returned by createSearchLogsToolHandler: Spec          *)
(***************************************************************************)
CallIds == 1 .. NumCalls

\* the request contexts of the callers of the network transport
ReqA == Req(JStr(<<"cA">>), JUndef, JStr(<<"10.0.0.1">>), JUndef)
ReqB == Req(JUndef, JUndef, JStr(<<"10.0.0.2">>), JUndef)
Callers == {ReqA, ReqB}
CallerIds == {extractClientId(q) : q \in Callers}

Args(t, l, d) == [searchTerm |-> t, limit |-> l, duration |-> d]

TermOk == <<R("A", 1), R("-", 1), R("7", 2)>>
TermPadded == <<R(" ", 1), R("a", 3), R(" ", 1)>>
TermInnerSpace == <<R("a", 1), R(" ", 1), R("b", 1)>>
TermBlank == <<R(" ", 2)>>
TermTooLong == <<R("a", MaxTermLen + 1)>>
TermMaxLen == <<R("a", MaxTermLen - 1), R("_", 1)>>
TermMaxLenPadded == <<R(" ", 1), R("a", MaxTermLen), R("\t", 1)>>
\* 'ORD-12345.test_1'
TermOrd ==
  <<R("O", 1), R("R", 1), R("D", 1), R("-", 1), R("1", 1), R("2", 1),
    R("3", 1), R("4", 1), R("5", 1), R(".", 1), R("t", 1), R("e", 1),
    R("s", 1), R("t", 1), R("_", 1), R("1", 1)>>
P30D == <<"P", "3", "0", "D">>
ThirtyDays == <<"3", "0", "d", "a", "y", "s">>

\* the arguments the handler is invoked with
ToolArgs ==
  {Args(JStr(TermOk), JUndef, JUndef),
   Args(JStr(TermPadded), JNum(1000), JStr(P30D)),
   Args(JStr(TermOk), JNum(1001), JUndef),
   Args(JStr(TermOk), JUndef, JStr(ThirtyDays)),
   Args(JStr(TermInnerSpace), JUndef, JUndef),
   Args(JStr(<<>>), JUndef, JUndef),
   Args(JStr(TermBlank), JUndef, JUndef),
   Args(JStr(TermTooLong), JUndef, JUndef)}

\* the invocations considered: every argument record from the caller with a
\* client-id header, and a plain one from the caller known by its address
ToolRequests ==
  {[req |-> ReqA, args |-> a] : a \in ToolArgs}
    \cup {[req |-> ReqB, args |-> Args(JStr(TermOk), JUndef, JUndef)]}

\* what queryWorkspace resolves with
QueryResults ==
  {[tables |-> <<>>],
   [tables |-> <<[name |-> "PrimaryResult", rows |-> <<"row1", "row2">>]>>]}

\* what queryWorkspace rejects with
QueryFailures ==
  {Err("RestError", Words(<<"connect", "ECONNREFUSED", "10.0.0.4:443">>)),
   Err("AuthenticationError",
       Words(<<"token", "validation", "failed", "for", "tenant", "t-1">>)),
   Err("NonError", Words(<<"ETIMEDOUT">>))}

IdleCall == [pc |-> "idle"]

ToolUnused ==
  /\ serverType = "stdio"
  /\ processEnv = RequiredKeys
  /\ calls = [i \in CallIds |-> IdleCall]
  /\ admittedBy = {}

McpIds == 1 .. NumReqs

\* const transports = {}
NoTransports == [k \in {} |-> 0]

\* the process before any signal: pending is what is left of the entries
\* the shutdown cleanup iterates over, second the same for the handler of a
\* second signal, handlers the number of handlers started, attempted the
\* calls of transport.close() the cleanups have made
Running ==
  [state |-> "running", exit |-> "none", pending |-> <<>>, handlers |-> 0,
   second |-> <<>>, attempted |-> <<>>]

\* a server that has started: its transport is connected (stdio) or its
\* listener is listening (HTTP)
Started ==
  [pc |-> "running", exit |-> "none", serving |-> TRUE, empty |-> {},
   log |-> <<>>, health |-> "none"]

HttpUnused ==
  /\ proc = Running
  /\ transports = NoTransports
  /\ transportObjs = NoTransports
  /\ mcp = [r \in McpIds |-> IdleCall]
  /\ uuids = 0
  /\ bound = NoTransports

\* serverType === 'sse' ? clientId : undefined
LoggedClientId(clientId) ==
  IF serverType = "sse" THEN JStr(clientId) ELSE JUndef

LogRateLimited(clientId) ==
  [sink    |-> "logger.warn",
   message |-> Words(<<"Rate", "limit", "exceeded", "for", "client:">> \o clientId)]

LogExecuting(clientId) ==
  [sink    |-> "logger.info",
   message |-> Words(<<"Executing", "searchLogs">>),
   meta    |-> [searchTerm |-> Words(<<"[REDACTED]">>),
                clientId   |-> LoggedClientId(clientId)]]

LogSuccess(clientId, n) ==
  [sink    |-> "logger.info",
   message |-> Words(<<"Successfully", "retrieved">>) \o <<[num |-> n]>>
               \o Words(<<"log", "entries">>)
               \o (IF serverType = "sse"
                     THEN Words(<<"for", "client:">> \o clientId)
                     ELSE <<>>)]

LogFailed(clientId, sanitized) ==
  [sink    |-> "logger.error",
   message |-> Words(<<"Tool", "execution", "failed">>),
   meta    |-> [error |-> sanitized, clientId |-> LoggedClientId(clientId)]]

\* a handler whose catch block lets the error escape
HandlerCatch_rethrow(c, e) ==
  [c EXCEPT
     !.pc = "done",
     !.caught = <<e>>,
     !.result = [kind |-> "threw", error |-> e]]

\* the catch block of the handler, entered with the error e thrown by
\* searchLogs: the log it leaves and the envelope it returns
HandlerCatch(c, e) ==
  [c EXCEPT
     !.pc = "done",
     !.caught = <<e>>,
     !.log = loggerWrite(
               loggerWrite(Append(@, searchLogs_logEntry(IF "originalError" \in DOMAIN e
                                                           THEN e.originalError ELSE e)),
                           0, sanitizeError_logEntry(e, "searchLogs")),
               0, LogFailed(c.clientId, sanitizeError(e))),
     !.result = [kind |-> "returned", envelope |-> ErrorEnvelope(e)]]

\* a gate that is applied only to the calls whose input passes validation
rateLimitGate_afterValidation(lim, clientId, t, args) ==
  IF searchLogs_prepare(args.searchTerm, args.limit, args.duration,
                        RequiredKeys).ok
    THEN checkLimit(lim, clientId, t)
    ELSE [allowed |-> TRUE, limits |-> lim]

\* if (!rateLimiter.checkLimit(clientId)): the first statement after the
\* client id is taken, whatever the arguments of the call
rateLimitGate(lim, clientId, t, args) == checkLimit(lim, clientId, t)

\* the handler up to its first await, invoked with args by the caller req
\* when the rate-limit map is lim and the clock reads t: the rate-limit
\* gate, then searchLogs up to the await of queryWorkspace.  The result is
\* the map it leaves and the invocation's record.
handlerStart(lim, t, req, args, env) ==
  LET clientId == extractClientId(NoReq)
      r == rateLimitGate(lim, clientId, t, args)
      c0 == [pc |-> "start", caller |-> req, args |-> args,
             clientId |-> clientId, admitted |-> r.allowed,
             validated |-> 0, queries |-> <<>>, caught |-> <<>>,
             log |-> <<>>,
             result |-> [kind |-> "pending"]]
  IN
    IF ~r.allowed
      THEN [limits |-> r.limits,
            call |-> [c0 EXCEPT
                        !.pc = "done",
                        !.log = loggerWrite(@, 1, LogRateLimited(clientId)),
                        !.result = [kind |-> "returned",
                                    envelope |-> RateLimitEnvelope]]]
      ELSE
        LET p == searchLogs_prepare(args.searchTerm, args.limit,
                                    args.duration, env)
            c1 == [c0 EXCEPT !.validated = 1,
                             !.log = loggerWrite(@, 2, LogExecuting(clientId))]
        IN [limits |-> r.limits,
            call |-> IF p.ok
                       THEN [c1 EXCEPT !.pc = "awaiting", !.queries = <<p.val>>]
                       ELSE HandlerCatch(c1, searchLogs_catch(p.error))]

\* the handler after queryWorkspace has resolved with logs
handlerResolve(c, logs) ==
  [c EXCEPT
     !.pc = "done",
     !.log = loggerWrite(@, 2, LogSuccess(c.clientId, resultCount(logs))),
     !.result = [kind |-> "returned",
                 envelope |-> SuccessEnvelope(c.args.searchTerm, logs)]]

\* the handler is invoked
StartCall(i, req, args) ==
  /\ calls[i].pc = "idle"
  /\ LET h == handlerStart(limits, now, req, args, processEnv) IN
       /\ limits' = h.limits
       /\ calls' = [calls EXCEPT ![i] = h.call]
       /\ admittedBy' = IF h.call.admitted
                          THEN admittedBy \cup {extractClientId(req)}
                          ELSE admittedBy
  /\ UNCHANGED <<now, hist, serverType, processEnv, lam, httpVars, pair, boot, probe>>

\* queryWorkspace resolves with logs
QueryResolves(i, logs) ==
  /\ calls[i].pc = "awaiting"
  /\ calls' = [calls EXCEPT ![i] = handlerResolve(@, logs)]
  /\ UNCHANGED <<now, limits, hist, serverType, processEnv, admittedBy, lam, httpVars, pair, boot, probe>>

\* a catch block that gives the quota of the failed call back
QueryRejects_refund(i, e) ==
  /\ calls[i].pc = "awaiting"
  /\ calls' = [calls EXCEPT ![i] = HandlerCatch(@, searchLogs_catch(e))]
  /\ limits' = clearLimit(limits, calls[i].clientId)
  /\ UNCHANGED <<now, hist, serverType, processEnv, admittedBy, lam, httpVars, pair, boot, probe>>

\* queryWorkspace rejects with the error e
QueryRejects(i, e) ==
  /\ calls[i].pc = "awaiting"
  /\ calls' = [calls EXCEPT ![i] = HandlerCatch(@, searchLogs_catch(e))]
  /\ UNCHANGED <<now, limits, hist, serverType, processEnv, admittedBy, lam, httpVars, pair, boot, probe>>

\* the envelope has been handed to the protocol layer
Respond(i) ==
  /\ calls[i].pc = "done"
  /\ calls' = [calls EXCEPT ![i] = IdleCall]
  /\ UNCHANGED <<now, limits, hist, serverType, processEnv, admittedBy, lam, httpVars, pair, boot, probe>>

\* a server is started only after validateEnvironment has passed
Init ==
  /\ now = 0
  /\ limits = NoLimits
  /\ hist = [c \in ClientIds |-> <<>>]
  /\ serverType \in {"stdio", "sse"}
  /\ processEnv = RequiredKeys
  /\ calls = [i \in CallIds |-> IdleCall]
  /\ admittedBy = {}
  /\ lam = IdleCall
  /\ HttpUnused
  /\ pair = IdleCall
  /\ boot = Started
  /\ probe = IdleCall

TickTool ==
  /\ now < MaxClock
  /\ \E d \in 1 .. (windowMs + 1) :
       /\ now + d <= MaxClock
       /\ now' = now + d
  /\ UNCHANGED <<limits, hist, toolVars, lam, httpVars, pair, boot, probe>>

CleanupTool ==
  /\ limits' = cleanup(limits, now)
  /\ limits' # limits
  /\ UNCHANGED <<now, hist, toolVars, lam, httpVars, pair, boot, probe>>

Next ==
  \/ TickTool
  \/ CleanupTool
  \/ \E i \in CallIds, q \in ToolRequests : StartCall(i, q.req, q.args)
  \/ \E i \in CallIds, logs \in QueryResults : QueryResolves(i, logs)
  \/ \E i \in CallIds, e \in QueryFailures : QueryRejects(i, e)
  \/ \E i \in CallIds : Respond(i)

Spec == Init /\ [][Next]_vars


(***************************************************************************)
(* Claims about the tool handler                                           *)
(***************************************************************************)
Done(i) == calls[i].pc = "done"
Envelope(i) == calls[i].result.envelope
Returned1(i) == calls[i].result.kind = "returned"
EnvText(i) == Envelope(i).content[1].text
IsErrorEnvelope(e) == "isError" \in DOMAIN e /\ e.isError = TRUE
\* the envelope carries the query result
CarriesPayload(e) ==
  \E k \in DOMAIN e.content : \E j \in DOMAIN e.content[k].text :
    "json" \in DOMAIN e.content[k].text[j]

\* C2: rate limiting is per client: a call is rejected only on account of
\* calls of its own caller identity (x-client-id header, else network
\* address), so a caller none of whose calls was admitted is never rejected
\* because another caller used up the quota.
C2_PerClient ==
  \A i \in CallIds :
    (Done(i) /\ ~calls[i].admitted)
      => extractClientId(calls[i].caller) \in admittedBy

\* C3: when the rate limiter rejects a call, the handler returns the error
\* envelope with the fixed rate-limit message, invokes neither the validator
\* nor the external query, and leaves the rate-limit map as it was.
C3_RejectLeavesEntry ==
  [][\A i \in CallIds :
       (/\ calls[i].pc = "idle"
        /\ calls'[i].pc # "idle"
        /\ calls'[i].clientId \in DOMAIN limits
        /\ now <= limits[calls'[i].clientId].resetTime
        /\ limits[calls'[i].clientId].count >= maxRequests)
       => /\ calls'[i].pc = "done"
          /\ calls'[i].result.kind = "returned"
          /\ calls'[i].result.envelope.isError = TRUE
          /\ calls'[i].result.envelope.content = <<TextContent(MsgRateLimit)>>
          /\ calls'[i].validated = 0
          /\ calls'[i].queries = <<>>
          /\ limits' = limits]_vars

\* a call was rejected while the entry of its client is at maxRequests
C3_Witness ==
  \E i \in CallIds :
    /\ Done(i)
    /\ ~calls[i].admitted
    /\ calls[i].clientId \in DOMAIN limits
    /\ limits[calls[i].clientId].count = maxRequests
    /\ Envelope(i).content = <<TextContent(MsgRateLimit)>>

\* the error the external query failed with, e the error searchLogs threw
Underlying(e) == IF "originalError" \in DOMAIN e THEN e.originalError ELSE e

\* the external query of call i failed
QueryFailed(i) ==
  /\ Done(i)
  /\ calls[i].queries # <<>>
  /\ calls[i].caught # <<>>

\* C5 as stated: when the external query fails, the only text the caller
\* sees is the fixed generic message.
C5_OnlyGenericText ==
  \A i \in CallIds :
    QueryFailed(i) => /\ Returned1(i)
                      /\ EnvText(i) = MsgGeneric

\* C5 as amended: when the external query fails, the text the caller sees
\* is 'Failed to fetch logs: ' followed by the fixed generic message, and
\* the message of the underlying error is no part of it.
C5_GenericAfterPrefix ==
  \A i \in CallIds :
    QueryFailed(i) =>
      /\ Returned1(i)
      /\ IsErrorEnvelope(Envelope(i))
      /\ Len(Envelope(i).content) = 1
      /\ EnvText(i) = MsgFailedPrefix \o MsgGeneric
      /\ ~Includes(EnvText(i), Underlying(calls[i].caught[1]).message)

\* the query failed with a message that has a safe pattern in it
C5_Witness ==
  \E i \in CallIds :
    /\ QueryFailed(i)
    /\ Includes(Underlying(calls[i].caught[1]).message, Words(<<"validation">>))

\* the validation of the input of call i failed
ValidationFailed(i) ==
  /\ Done(i)
  /\ calls[i].caught # <<>>
  /\ calls[i].caught[1].cls = "ValidationError"

\* C6 as stated: when input validation fails, the text of the error
\* envelope equals the ValidationError's message, nothing added.
C6_MessageOnly ==
  \A i \in CallIds :
    ValidationFailed(i) => /\ Returned1(i)
                           /\ EnvText(i) = calls[i].caught[1].message

\* C6 as amended: when input validation fails, the text of the error
\* envelope is 'Failed to fetch logs: ' followed by the ValidationError's
\* message verbatim.
C6_MessageAfterPrefix ==
  \A i \in CallIds :
    ValidationFailed(i) =>
      /\ Returned1(i)
      /\ IsErrorEnvelope(Envelope(i))
      /\ Len(Envelope(i).content) = 1
      /\ EnvText(i) = MsgFailedPrefix \o calls[i].caught[1].message

\* a term with a space in it was refused with the format message
C6_Witness ==
  \E i \in CallIds :
    /\ ValidationFailed(i)
    /\ calls[i].args.searchTerm = JStr(TermInnerSpace)
    /\ calls[i].caught[1].message = MsgFormat
    /\ calls[i].queries = <<>>

\* C7: every invocation of the handler that has ended has returned an
\* envelope and has not thrown, and the envelope is either an error
\* envelope or one carrying the result, never both, whether the call was
\* rejected by the rate limiter, failed validation, failed in the query or
\* succeeded.
C7_OneEnvelope ==
  \A i \in CallIds :
    Done(i) =>
      /\ Returned1(i)
      /\ IsErrorEnvelope(Envelope(i)) # CarriesPayload(Envelope(i))
      /\ (calls[i].caught # <<>> \/ ~calls[i].admitted)
           => IsErrorEnvelope(Envelope(i))
      /\ (calls[i].caught = <<>> /\ calls[i].admitted)
           => CarriesPayload(Envelope(i))

\* a call whose query failed has ended
C7_Witness ==
  \E i \in CallIds :
    /\ QueryFailed(i)
    /\ calls[i].caught[1].cls = "QueryError"
    /\ calls[i].result.kind # "pending"

(***************************************************************************)
(* The Lambda handler (aws-lambda/index.ts): SpecLambda                    *)
(***************************************************************************)
\* the event is the arguments themselves, or carries them in event.body as
\* an object or as a JSON string, which may not parse
DirectEvent(a) == [body |-> JUndef, fields |-> a]
ObjectBodyEvent(a) == [body |-> [kind |-> "object", val |-> a]]
JsonBodyEvent(a) == [body |-> [kind |-> "string", val |-> <<"{..}">>, parsed |-> <<a>>]]
BadJsonEvent == [body |-> [kind |-> "string", val |-> <<"{">>, parsed |-> <<>>]]

LambdaArgs ==
  {Args(JStr(TermOk), JUndef, JUndef),
   Args(JStr(TermPadded), JNum(10), JStr(P30D)),
   Args(JStr(TermOk), JNum(1001), JUndef),
   Args(JStr(TermOk), JNum(0), JUndef),
   Args(JStr(TermOk), JUndef, JStr(ThirtyDays)),
   Args(JStr(TermInnerSpace), JUndef, JUndef),
   Args(JStr(TermTooLong), JUndef, JUndef),
   Args(JStr(TermMaxLen), JUndef, JUndef),
   Args(JStr(TermMaxLenPadded), JUndef, JUndef),
   Args(JStr(TermOrd), JUndef, JUndef),
   Args(JStr(TermBlank), JUndef, JUndef),
   Args(JStr(<<>>), JUndef, JUndef),
   Args(JNum(7), JUndef, JUndef),
   Args(JUndef, JUndef, JUndef)}

LambdaEvents ==
  {DirectEvent(a) : a \in LambdaArgs}
    \cup {ObjectBodyEvent(a) : a \in LambdaArgs}
    \cup {JsonBodyEvent(Args(JStr(TermOk), JNum(1001), JUndef)), BadJsonEvent}

MsgInvalidJson == Words(<<"Invalid", "JSON", "in", "request", "body">>)
MsgTermRequired == Words(<<"searchTerm", "is", "required">>)

\* the first lines of handler: the body the fields are read from, or the
\* error of JSON.parse
lambdaBody(event) ==
  IF ~Truthy(event.body) THEN Returned(event.fields)
  ELSE IF event.body.kind = "string"
    THEN IF event.body.parsed = <<>>
           THEN Thrown(ValidationError(MsgInvalidJson))
           ELSE Returned(event.body.parsed[1])
    ELSE Returned(event.body.val)

LogFetching(e) ==
  [sink    |-> "console.error",
   message |-> Words(<<"Error", "fetching", "logs:">>),
   meta    |-> e]

\* handler is invoked with the event: up to the await of queryWorkspace
LambdaInvoke(event) ==
  /\ lam.pc = "idle"
  /\ LET b == lambdaBody(event)
         c0 == [pc |-> "done", event |-> event, queries |-> <<>>, log |-> <<>>,
                result |-> [kind |-> "pending"]]
     IN
       IF ~b.ok
         THEN lam' = [c0 EXCEPT !.result = [kind |-> "threw", error |-> b.error]]
       ELSE IF ~Truthy(b.val.searchTerm)
         THEN lam' = [c0 EXCEPT !.result =
                        [kind |-> "threw", error |-> Err("Error", MsgTermRequired)]]
       ELSE
         LET p == searchLogs_prepare(b.val.searchTerm, b.val.limit,
                                     b.val.duration, processEnv)
         IN IF p.ok
              THEN lam' = [c0 EXCEPT !.pc = "awaiting", !.queries = <<p.val>>]
              ELSE lam' = [c0 EXCEPT
                     !.log = <<searchLogs_logEntry(p.error),
                               LogFetching(searchLogs_catch(p.error))>>,
                     !.result = [kind |-> "threw",
                                 error |-> searchLogs_catch(p.error)]]
  /\ UNCHANGED <<now, limits, hist, toolVars, httpVars, pair, boot, probe>>

\* queryWorkspace resolves: handler returns result.tables?.[0]?.rows || []
LambdaQueryResolves(logs) ==
  /\ lam.pc = "awaiting"
  /\ lam' = [lam EXCEPT
       !.pc = "done",
       !.result = [kind |-> "returned",
                   val  |-> IF Len(logs.tables) > 0 THEN logs.tables[1].rows
                                                   ELSE <<>>]]
  /\ UNCHANGED <<now, limits, hist, toolVars, httpVars, pair, boot, probe>>

\* queryWorkspace rejects: searchLogs wraps the error, handler logs it and
\* throws it on
LambdaQueryRejects(e) ==
  /\ lam.pc = "awaiting"
  /\ lam' = [lam EXCEPT
       !.pc = "done",
       !.log = <<searchLogs_logEntry(e), LogFetching(searchLogs_catch(e))>>,
       !.result = [kind |-> "threw", error |-> searchLogs_catch(e)]]
  /\ UNCHANGED <<now, limits, hist, toolVars, httpVars, pair, boot, probe>>

\* the runtime takes the result; the function can be invoked again
LambdaEnd ==
  /\ lam.pc = "done"
  /\ lam' = IdleCall
  /\ UNCHANGED <<now, limits, hist, toolVars, httpVars, pair, boot, probe>>

\* the function may be deployed with any of the required variables missing
InitLambda ==
  /\ now = 0
  /\ limits = NoLimits
  /\ hist = [c \in ClientIds |-> <<>>]
  /\ serverType = "stdio"
  /\ processEnv \in SUBSET RequiredKeys
  /\ calls = [i \in CallIds |-> IdleCall]
  /\ admittedBy = {}
  /\ lam = IdleCall
  /\ HttpUnused
  /\ pair = IdleCall
  /\ boot = Started
  /\ probe = IdleCall

NextLambda ==
  \/ \E event \in LambdaEvents : LambdaInvoke(event)
  \/ \E logs \in QueryResults : LambdaQueryResolves(logs)
  \/ \E e \in QueryFailures : LambdaQueryRejects(e)
  \/ LambdaEnd

SpecLambda == InitLambda /\ [][NextLambda]_vars

(***************************************************************************)
(* C4                                                                      *)
(***************************************************************************)
IsDigits(s) == Len(s) >= 1 /\ \A i \in 1 .. Len(s) : s[i] \in Digits
\* \d+D
MatchDays(s) == Len(s) >= 2 /\ s[Len(s)] = "D" /\ IsDigits(SubSeq(s, 1, Len(s) - 1))
\* T\d+H
MatchHours(s) ==
  Len(s) >= 3 /\ s[1] = "T" /\ s[Len(s)] = "H" /\ IsDigits(SubSeq(s, 2, Len(s) - 1))
\* /^P(\d+D|T\d+H|\d+DT\d+H)$/.test(s)
durationRegex(s) ==
  /\ Len(s) >= 1
  /\ s[1] = "P"
  /\ LET r == Tail(s) IN
       \/ MatchDays(r)
       \/ MatchHours(r)
       \/ \E k \in 1 .. Len(r) :
            MatchDays(SubSeq(r, 1, k)) /\ MatchHours(SubSeq(r, k + 1, Len(r)))

MinLimit == 1
MaxLimit == 1000

\* a term of 1-100 characters from alphanumeric, hyphen, underscore, dot
ValidTerm(t) ==
  /\ StrLen(t) >= 1
  /\ StrLen(t) <= MaxTermLen
  /\ \A i \in 1 .. Len(t) : t[i].ch \in TermChars
ValidLimit(l) == l.kind = "number" /\ l.val >= MinLimit /\ l.val <= MaxLimit
ValidDuration(d) == d.kind = "string" /\ durationRegex(d.val)

\* C4: the external query is invoked only with a searchTerm, a limit and a
\* duration that all three pass validation; a request with an invalid field
\* makes no external call.
C4_OnlyValidatedReachQuery ==
  \A k \in 1 .. Len(IF lam.pc = "idle" THEN <<>> ELSE lam.queries) :
    /\ ValidTerm(lam.queries[k].searchTerm)
    /\ ValidLimit(lam.queries[k].limit)
    /\ ValidDuration(lam.queries[k].duration)

(***************************************************************************)
(* The rate limiter driven directly: SpecRL                                *)
(***************************************************************************)
InitRL ==
  /\ now = 0
  /\ limits = NoLimits
  /\ hist = [c \in ClientIds |-> <<>>]
  /\ ToolUnused
  /\ lam = IdleCall
  /\ HttpUnused
  /\ pair = IdleCall
  /\ boot = Started
  /\ probe = IdleCall

\* time passes
Tick ==
  /\ now < MaxClock
  /\ \E d \in 1 .. (windowMs + 1) :
       /\ now + d <= MaxClock
       /\ now' = now + d
  /\ UNCHANGED <<limits, hist, toolVars, lam, httpVars, pair, boot, probe>>

CheckLimit(c) ==
  /\ Len(hist[c]) < MaxHist
  /\ LET r == checkLimit(limits, c, now) IN
       /\ limits' = r.limits
       /\ hist' = [hist EXCEPT ![c] = Append(@, [t |-> now, ok |-> r.allowed])]
  /\ UNCHANGED <<now, toolVars, lam, httpVars, pair, boot, probe>>

\* the setInterval sweep
Cleanup ==
  /\ limits' = cleanup(limits, now)
  /\ limits' # limits
  /\ UNCHANGED <<now, hist, toolVars, lam, httpVars, pair, boot, probe>>

\* clearLimit(c): the client starts afresh
ClearLimit(c) ==
  /\ c \in DOMAIN limits
  /\ limits' = clearLimit(limits, c)
  /\ hist' = [hist EXCEPT ![c] = <<>>]
  /\ UNCHANGED <<now, toolVars, lam, httpVars, pair, boot, probe>>

NextRL ==
  \/ Tick
  \/ \E c \in ClientIds : CheckLimit(c)
  \/ Cleanup
  \/ \E c \in ClientIds : ClearLimit(c)

SpecRL == InitRL /\ [][NextRL]_vars

(***************************************************************************)
(* C1                                                                      *)
(***************************************************************************)
\* index of the call that opened the window call i of h falls in: the first
\* call, or the first call whose clock reading is after the windowResetAt
\* (= reading + windowMs) set by the previous opener
RECURSIVE Opener(_, _)
Opener(h, i) ==
  IF i = 1 THEN 1
  ELSE LET o == Opener(h, i - 1) IN
         IF h[i].t > h[o].t + windowMs THEN i ELSE o

\* C1: for a client that starts with no unexpired entry, among the
\* consecutive checkLimit calls whose clock reading is not after the
\* windowResetAt set by the first of them exactly the first maxRequests
\* return true and the later ones false, and the first call after
\* windowResetAt returns true again and opens the next window.
C1_FixedWindow ==
  \A c \in ClientIds : \A i \in 1 .. Len(hist[c]) :
    hist[c][i].ok <=> (i - Opener(hist[c], i) + 1 <= maxRequests)

\* a client was admitted maxRequests times, rejected, and admitted again
\* after the window
C1_Witness ==
  \E c \in ClientIds :
    /\ Len(hist[c]) = maxRequests + 2
    /\ \A i \in 1 .. maxRequests : hist[c][i].ok
    /\ ~hist[c][maxRequests + 1].ok
    /\ hist[c][maxRequests + 2].ok
    /\ hist[c][maxRequests + 2].t > hist[c][1].t + windowMs

(***************************************************************************)
(* The /mcp route of the HTTP server and its session registry: SpecHttp    *)
(*                                                                         *)
(* A session token is a number: NoToken stands for an absent (or empty)    *)
(* mcp-session-id header, Unissued for a value the server never generated, *)
(* and k >= 1 for the k-th value returned by randomUUID().  A transport    *)
(* object is [sessionId, closed, server]; server is the McpServer that was *)
(* connected to it.  The request given to transport.handleRequest is an    *)
(* initialize request, another protocol request ("call") or a DELETE.      *)
(***************************************************************************)
NoToken == 0
Unissued == 0 - 1
Kinds == {"initialize", "call", "delete"}

\* the values a client can put in the mcp-session-id header
Headers == {NoToken, Unissued} \cup (1 .. uuids)

\* one McpServer made when the module is loaded and used for every session
createMcpServer_shared(n) == 1

\* createMcpServer('sse'): a new McpServer at every call, the (n+1)st here
createMcpServer(n) == n + 1

\* new StreamableHTTPServerTransport({...}), then server.connect(transport)
NewTransport(server) ==
  [sessionId |-> NoToken, closed |-> FALSE, server |-> server]

\* a generator that returns the same value at every call
sessionIdGenerator_fixed(n) == 1

\* sessionIdGenerator: () => randomUUID(); a value differs from the n
\* values generated before it
sessionIdGenerator(n) == n + 1

\* a test that never finds the transport
routeLookup_never(reg, sessionId) == FALSE

\* sessionId && transports[sessionId]
routeLookup(reg, sessionId) ==
  /\ sessionId # NoToken
  /\ sessionId \in DOMAIN reg

\* transport.onclose: if (transport.sessionId) delete transports[...]
onclose(reg, tr) ==
  IF tr.sessionId # NoToken THEN MapDelete(reg, tr.sessionId) ELSE reg

\* transport.close(): the transport is closed and calls onclose
closeTransport(st, t) ==
  [st EXCEPT !.objs = [st.objs EXCEPT ![t].closed = TRUE],
             !.reg = onclose(st.reg, st.objs[t])]

\* the part of the server's state the route reads and writes
HttpState ==
  [reg |-> transports, objs |-> transportObjs, uuids |-> uuids,
   bound |-> bound]

\* the body the catch block of the route sends
NoBody == [jsonrpc |-> "none"]
InternalError ==
  [jsonrpc |-> "2.0",
   error   |-> [code |-> 0 - 32603, message |-> <<"Internal", "server", "error">>],
   id      |-> "null"]

\* the answer of a request: its HTTP status and the token issued with it;
\* threw and body are set by the catch block of the route
Answer(st, status, minted) ==
  [st |-> st, status |-> status, minted |-> minted, threw |-> FALSE,
   body |-> NoBody]

\* onsessioninitialized: transports[sessionId] = transport
onsessioninitialized(st, t, sid) ==
  [st EXCEPT !.reg = MapSet(st.reg, sid, t),
             !.bound = MapSet(st.bound, sid,
                              [transport |-> t, server |-> st.objs[t].server])]

\* transport.handleRequest(req, res, req.body) of the SDK transport t.
\* An initialize request makes the transport generate its session id and
\* call onsessioninitialized; it is refused (400) by a transport that has a
\* session already.  Any other request is refused by a transport without a
\* session (400) and by one whose session id is not the header's (404); a
\* DELETE closes the transport.
handleRequest(st, t, kind, header) ==
  LET tr == st.objs[t] IN
  IF kind = "initialize"
    THEN IF tr.sessionId # NoToken
           THEN Answer(st, 400, NoToken)
           ELSE LET sid == sessionIdGenerator(st.uuids)
                    s1 == [st EXCEPT !.objs = [st.objs EXCEPT ![t].sessionId = sid],
                                     !.uuids = st.uuids + 1]
                IN  Answer(onsessioninitialized(s1, t, sid), 200, sid)
    ELSE IF tr.sessionId = NoToken
           THEN Answer(st, 400, NoToken)
           ELSE IF header # tr.sessionId
                  THEN Answer(st, 404, NoToken)
                  ELSE IF kind = "delete"
                         THEN Answer(closeTransport(st, t), 200, NoToken)
                         ELSE Answer(st, 200, NoToken)

\* a catch block that answers 500 with a plain text
McpCatch_plainText(st) ==
  [Answer(st, 500, NoToken) EXCEPT !.threw = TRUE]

\* catch (error): if (!res.headersSent) res.status(500).json({...}).  The
\* throw is one that happens before the transport has written the headers;
\* after a later throw the catch block sends nothing and the answer is the
\* one the transport gave.
McpCatch(st) ==
  [Answer(st, 500, NoToken) EXCEPT !.threw = TRUE, !.body = InternalError]

SetHttpState(st) ==
  /\ transports' = st.reg
  /\ transportObjs' = st.objs
  /\ uuids' = st.uuids
  /\ bound' = st.bound

\* the record of a request: the header and kind it came with, whether the
\* header was a key of the registry at its arrival (known), the transport
\* and server that handle it, the number
\* of transports (and servers) constructed for it, and its answer
McpRecord(pc, sessionId, kind, known, t, server, built, ans) ==
  [pc |-> pc, token |-> sessionId, kind |-> kind, known |-> known,
   transport |-> t, server |-> server, built |-> built,
   minted |-> ans.minted, status |-> ans.status, threw |-> ans.threw,
   body |-> ans.body]

\* app.all('/mcp') up to its first await: a request whose token is in the
\* registry is handled by the registered transport; for any other a new
\* transport and a new server are constructed and server.connect is awaited
McpRequest(r, sessionId, kind, throws) ==
  /\ proc.state # "exited"
  /\ mcp[r].pc = "idle"
  /\ sessionId \in Headers
  /\ IF routeLookup(transports, sessionId)
       THEN LET t == transports[sessionId]
                ans == IF throws THEN McpCatch(HttpState)
                       ELSE handleRequest(HttpState, t, kind, sessionId)
            IN  /\ SetHttpState(ans.st)
                /\ mcp' = [mcp EXCEPT ![r] =
                     McpRecord("done", sessionId, kind, sessionId \in DOMAIN transports,
                               t, transportObjs[t].server, 0, ans)]
       ELSE LET n == Cardinality(DOMAIN transportObjs)
                t == n + 1
                server == createMcpServer(n)
            IN  /\ n < MaxTransports
                /\ ~throws
                /\ transportObjs' = MapSet(transportObjs, t, NewTransport(server))
                /\ mcp' = [mcp EXCEPT ![r] =
                     McpRecord("connecting", sessionId, kind,
                               sessionId \in DOMAIN transports, t, server, 1, Answer(HttpState, 0, NoToken))]
                /\ UNCHANGED <<transports, uuids, bound>>
  /\ UNCHANGED <<now, limits, hist, toolVars, lam, proc, pair, boot, probe>>

\* server.connect(transport) has resolved (or thrown): the request is given
\* to the new transport
McpConnected(r, throws) ==
  /\ proc.state # "exited"
  /\ mcp[r].pc = "connecting"
  /\ LET q == mcp[r]
         ans == IF throws THEN McpCatch(HttpState)
                ELSE handleRequest(HttpState, q.transport, q.kind, q.token)
     IN  /\ SetHttpState(ans.st)
         /\ mcp' = [mcp EXCEPT ![r] =
              McpRecord("done", q.token, q.kind, q.known, q.transport,
                        q.server, q.built, ans)]
  /\ UNCHANGED <<now, limits, hist, toolVars, lam, proc, pair, boot, probe>>

\* the response has been sent
McpEnd(r) ==
  /\ proc.state # "exited"
  /\ mcp[r].pc = "done"
  /\ mcp' = [mcp EXCEPT ![r] = IdleCall]
  /\ UNCHANGED <<now, limits, hist, toolVars, lam, proc, pair, boot, probe>>
  /\ UNCHANGED <<transports, transportObjs, uuids, bound>>

\* a transport that is not being connected closes
TransportCloses(t) ==
  /\ proc.state # "exited"
  /\ t \in DOMAIN transportObjs
  /\ ~transportObjs[t].closed
  /\ \A r \in McpIds : mcp[r].pc = "connecting" => mcp[r].transport # t
  /\ SetHttpState(closeTransport(HttpState, t))
  /\ UNCHANGED <<now, limits, hist, toolVars, lam, mcp, proc, pair, boot, probe>>

\* Object.entries(transports): the entries in the order of insertion, which
\* is the order in which the tokens were generated
RECURSIVE EntriesFrom(_, _)
EntriesFrom(reg, k) ==
  IF k > uuids THEN <<>>
  ELSE (IF k \in DOMAIN reg THEN <<reg[k]>> ELSE <<>>) \o EntriesFrom(reg, k + 1)

Entries(reg) == EntriesFrom(reg, 1)

\* process.on('SIGINT' | 'SIGTERM'): the shutdown handler starts and its
\* cleanup takes the entries of the registry; the listener keeps listening
Signal ==
  /\ proc.state = "running"
  /\ proc' = [Running EXCEPT !.state = "shutting", !.handlers = 1,
                              !.pending = Entries(transports)]
  /\ UNCHANGED <<now, limits, hist, toolVars, lam, pair, boot, probe>>
  /\ UNCHANGED <<transports, transportObjs, mcp, uuids, bound>>

\* a loop without the try around transport.close(): the rejection ends the
\* cleanup and the handler exits with status 1
ShutdownClose_stopsOnFailure(rejects) ==
  /\ proc.state = "shutting"
  /\ proc.pending # <<>>
  /\ proc' = IF rejects
               THEN [proc EXCEPT
                       !.state = "exited", !.exit = "1",
                       !.attempted = Append(@, [transport |-> Head(proc.pending),
                                                ok |-> FALSE])]
               ELSE [proc EXCEPT
                       !.pending = Tail(proc.pending),
                       !.attempted = Append(@, [transport |-> Head(proc.pending),
                                                ok |-> TRUE])]
  /\ IF rejects
       THEN UNCHANGED <<transports, transportObjs, uuids, bound>>
       ELSE SetHttpState(closeTransport(HttpState, Head(proc.pending)))
  /\ UNCHANGED <<now, limits, hist, toolVars, lam, mcp, pair, boot, probe>>

\* one turn of the loop of the cleanup: await transport.close(), which
\* closes the transport or rejects; a rejection is logged and the loop goes
\* on.  attempted keeps the calls of close the cleanup has made.
ShutdownClose(rejects) ==
  /\ proc.state = "shutting"
  /\ proc.pending # <<>>
  /\ proc' = [proc EXCEPT
                !.pending = Tail(proc.pending),
                !.attempted = Append(@, [transport |-> Head(proc.pending),
                                         ok |-> ~rejects])]
  /\ IF rejects
       THEN UNCHANGED <<transports, transportObjs, uuids, bound>>
       ELSE SetHttpState(closeTransport(HttpState, Head(proc.pending)))
  /\ UNCHANGED <<now, limits, hist, toolVars, lam, mcp, pair, boot, probe>>

\* after the cleanup: logger.info('Server shutdown complete'); process.exit(0)
ShutdownExit ==
  /\ proc.state = "shutting"
  /\ proc.pending = <<>>
  /\ proc' = [proc EXCEPT !.state = "exited", !.exit = "0"]
  /\ UNCHANGED <<now, limits, hist, toolVars, lam, pair, boot, probe>>
  /\ UNCHANGED <<transports, transportObjs, mcp, uuids, bound>>

\* a second SIGINT or SIGTERM while the first handler is at the await of a
\* transport.close() it has called: process.on calls shutdownHandler again
\* (the handler keeps no mark of a shutdown in progress), and its cleanup
\* takes the entries the registry has then
SecondSignal ==
  /\ proc.state = "shutting"
  /\ proc.handlers = 1
  /\ proc.attempted # <<>>
  /\ proc' = [proc EXCEPT !.handlers = 2, !.second = Entries(transports)]
  /\ UNCHANGED <<now, limits, hist, toolVars, lam, pair, boot, probe>>
  /\ UNCHANGED <<transports, transportObjs, mcp, uuids, bound>>

\* one turn of the loop of the second handler's cleanup
SecondClose(rejects) ==
  /\ proc.state = "shutting"
  /\ proc.handlers = 2
  /\ proc.second # <<>>
  /\ proc' = [proc EXCEPT
                !.second = Tail(proc.second),
                !.attempted = Append(@, [transport |-> Head(proc.second),
                                         ok |-> ~rejects])]
  /\ IF rejects
       THEN UNCHANGED <<transports, transportObjs, uuids, bound>>
       ELSE SetHttpState(closeTransport(HttpState, Head(proc.second)))
  /\ UNCHANGED <<now, limits, hist, toolVars, lam, mcp, pair, boot, probe>>

\* the second handler is through its cleanup: process.exit(0)
SecondExit ==
  /\ proc.state = "shutting"
  /\ proc.handlers = 2
  /\ proc.second = <<>>
  /\ proc' = [proc EXCEPT !.state = "exited", !.exit = "0"]
  /\ UNCHANGED <<now, limits, hist, toolVars, lam, pair, boot, probe>>
  /\ UNCHANGED <<transports, transportObjs, mcp, uuids, bound>>

InitHttp ==
  /\ now = 0
  /\ limits = NoLimits
  /\ hist = [c \in ClientIds |-> <<>>]
  /\ serverType = "sse"
  /\ processEnv = RequiredKeys
  /\ calls = [i \in CallIds |-> IdleCall]
  /\ admittedBy = {}
  /\ lam = IdleCall
  /\ HttpUnused
  /\ pair = IdleCall
  /\ boot = Started
  /\ probe = IdleCall

NextHttp ==
  \/ \E r \in McpIds, sessionId \in {NoToken, Unissued} \cup (1 .. MaxTransports),
        kind \in Kinds, throws \in BOOLEAN :
       McpRequest(r, sessionId, kind, throws)
  \/ \E r \in McpIds, throws \in BOOLEAN : McpConnected(r, throws)
  \/ \E r \in McpIds : McpEnd(r)
  \/ \E t \in 1 .. MaxTransports : TransportCloses(t)

SpecHttp == InitHttp /\ [][NextHttp]_vars

\* the HTTP server serving requests and receiving a termination signal
NextShutdown ==
  \/ NextHttp
  \/ Signal
  \/ \E rejects \in BOOLEAN : ShutdownClose(rejects)
  \/ ShutdownExit

SpecShutdown == InitHttp /\ [][NextShutdown]_vars

(***************************************************************************)
(* Claims about the session registry                                       *)
(***************************************************************************)
\* the request r is being handled or has been answered
InFlight(r) == mcp[r].pc # "idle"

\* the request r came with a token that was in the registry
Recognised(r) == mcp[r].known

\* the state of the session of transport t
SessionState(t) ==
  IF transportObjs[t].closed THEN "CLOSED"
  ELSE IF transportObjs[t].sessionId # NoToken THEN "ACTIVE"
  ELSE "UNINITIALIZED"

\* C8: a request whose session token is in the registry is handled by the
\* transport and the server that were registered under that token when the
\* session was created, and no transport and no server is constructed for it.
C8_SameTransportAndHandler ==
  \A r \in McpIds :
    (InFlight(r) /\ Recognised(r)) =>
      /\ mcp[r].transport = bound[mcp[r].token].transport
      /\ mcp[r].server = bound[mcp[r].token].server
      /\ mcp[r].built = 0

\* a request of an established session has been answered by its transport
C8_Witness ==
  \E r \in McpIds :
    /\ mcp[r].pc = "done"
    /\ Recognised(r)
    /\ mcp[r].kind = "call"
    /\ mcp[r].status = 200

\* C9: a request with a non-empty session token that is not in the registry
\* gets a new session: a transport and a server are constructed for it, a
\* new token is issued with the answer, and the answer is not an error
\* (unless the transport or the connection threw).
C9_StaleTokenNewSession ==
  \A r \in McpIds :
    (/\ mcp[r].pc = "done"
     /\ mcp[r].token # NoToken
     /\ ~Recognised(r)
     /\ mcp[r].status # 500) =>
      /\ mcp[r].built = 1
      /\ mcp[r].minted \notin {NoToken, mcp[r].token}
      /\ mcp[r].status = 200

\* C10: the token of a closed session is not in the registry and is the
\* token of no other session.
C10_ClosedTokenNeverBound ==
  \A t \in DOMAIN transportObjs :
    (SessionState(t) = "CLOSED" /\ transportObjs[t].sessionId # NoToken) =>
      /\ transportObjs[t].sessionId \notin DOMAIN transports
      /\ \A u \in DOMAIN transportObjs :
           u # t => transportObjs[u].sessionId # transportObjs[t].sessionId

\* a session was closed and a request that came with its token afterwards
\* has been given a session of its own
C10_Witness ==
  \E r \in McpIds, t \in DOMAIN transportObjs :
    /\ mcp[r].pc = "done"
    /\ SessionState(t) = "CLOSED"
    /\ mcp[r].token = transportObjs[t].sessionId
    /\ mcp[r].token # NoToken
    /\ mcp[r].minted # NoToken
    /\ mcp[r].minted \in DOMAIN transports

(***************************************************************************)
(* Claims about the shutdown of the HTTP server                            *)
(***************************************************************************)
\* the sessions in the registry whose transport is not closed
ActiveSessions ==
  {k \in DOMAIN transports : ~transportObjs[transports[k]].closed}

\* C11: when the process exits after a termination signal, no session in
\* the registry is still active.
C11_NoActiveSessionAtExit ==
  proc.state = "exited" => ActiveSessions = {}

\* C12: once shutdown has begun, no request is taken up by the /mcp route:
\* none is given to a transport and none has a transport constructed for it.
C12_NoNewCallInShutdown ==
  [][proc.state = "shutting" =>
       \A r \in McpIds : mcp[r].pc = "idle" => mcp'[r].pc = "idle"]_vars

(***************************************************************************)
(* The tool handler with its own steps taken eventually: SpecToolLive.     *)
(* The handler goes on when the promise of searchLogs settles; nothing in  *)
(* the handler or in searchLogs settles it but the answer of the external  *)
(* query, on which no fairness is assumed.                                 *)
(***************************************************************************)
SpecToolLive ==
  Init /\ [][Next]_vars /\ \A i \in CallIds : WF_vars(Respond(i))

\* C13: every call that has started its external query eventually has an
\* envelope, whether or not the external query answers.
C13_AdmittedCallReturns ==
  \A i \in CallIds : (calls[i].pc = "awaiting") ~> (calls[i].pc = "done")

(***************************************************************************)
(* C14                                                                     *)
(***************************************************************************)
\* the value v is not a search term the validator accepts
InvalidTerm(v) == v.kind # "string" \/ ~ValidTerm(Trim(v.val))

\* the entry of client c allows no further call at clock reading t
Exhausted(lim, c, t) ==
  /\ c \in DOMAIN lim
  /\ t <= lim[c].resetTime
  /\ lim[c].count >= maxRequests

\* the count of client c after one more call counted at clock reading t
CountedOnce(lim, c, t) ==
  IF c \in DOMAIN lim /\ t <= lim[c].resetTime THEN lim[c].count + 1 ELSE 1

C14_RefusedUnvalidated ==
  \E i \in CallIds :
    /\ Done(i)
    /\ InvalidTerm(calls[i].args.searchTerm)
    /\ ~calls[i].admitted
    /\ calls[i].validated = 0
    /\ Envelope(i) = RateLimitEnvelope

(***************************************************************************)
(* Two invocations of the tool handler that differ only in the search      *)
(* term: SpecPair.  Both start from the same rate-limit map at the same    *)
(* clock reading and get the same answer from the external query.          *)
(***************************************************************************)
TermInnerSpace2 == <<R("b", 1), R(" ", 1), R("c", 2)>>

PairTerms == {a.searchTerm : a \in ToolArgs} \cup {JStr(TermInnerSpace2)}

\* the map before any call, and the map when the quota of the window that
\* opened at clock reading 0 is used up
PairLimits ==
  {NoLimits,
   MapSet(NoLimits, extractClientId(NoReq),
          [count |-> maxRequests, resetTime |-> windowMs])}

PairInvoke(lim, args, term2) ==
  /\ pair.pc = "idle"
  /\ term2 # args.searchTerm
  /\ pair' = [pc |-> "run",
              a |-> handlerStart(lim, now, ReqA, args, processEnv).call,
              b |-> handlerStart(lim, now, ReqA,
                                 [args EXCEPT !.searchTerm = term2],
                                 processEnv).call]
  /\ UNCHANGED <<now, limits, hist, toolVars, lam, httpVars, boot, probe>>

Awaiting(c) == c.pc = "awaiting"

PairResolves(logs) ==
  /\ pair.pc = "run"
  /\ Awaiting(pair.a) \/ Awaiting(pair.b)
  /\ pair' = [pair EXCEPT
       !.a = IF Awaiting(@) THEN handlerResolve(@, logs) ELSE @,
       !.b = IF Awaiting(@) THEN handlerResolve(@, logs) ELSE @]
  /\ UNCHANGED <<now, limits, hist, toolVars, lam, httpVars, boot, probe>>

PairRejects(e) ==
  /\ pair.pc = "run"
  /\ Awaiting(pair.a) \/ Awaiting(pair.b)
  /\ pair' = [pair EXCEPT
       !.a = IF Awaiting(@) THEN HandlerCatch(@, searchLogs_catch(e)) ELSE @,
       !.b = IF Awaiting(@) THEN HandlerCatch(@, searchLogs_catch(e)) ELSE @]
  /\ UNCHANGED <<now, limits, hist, toolVars, lam, httpVars, boot, probe>>

PairEnd ==
  /\ pair.pc = "run"
  /\ pair.a.pc = "done"
  /\ pair.b.pc = "done"
  /\ pair' = IdleCall
  /\ UNCHANGED <<now, limits, hist, toolVars, lam, httpVars, boot, probe>>

InitPair ==
  /\ now = 0
  /\ limits = NoLimits
  /\ hist = [c \in ClientIds |-> <<>>]
  /\ serverType \in {"stdio", "sse"}
  /\ processEnv = RequiredKeys
  /\ calls = [i \in CallIds |-> IdleCall]
  /\ admittedBy = {}
  /\ lam = IdleCall
  /\ HttpUnused
  /\ pair = IdleCall
  /\ boot = Started
  /\ probe = IdleCall

NextPair ==
  \/ \E lim \in PairLimits, args \in ToolArgs, term2 \in PairTerms :
       PairInvoke(lim, args, term2)
  \/ \E logs \in QueryResults : PairResolves(logs)
  \/ \E e \in QueryFailures : PairRejects(e)
  \/ PairEnd

SpecPair == InitPair /\ [][NextPair]_vars

(***************************************************************************)
(* C15                                                                     *)
(***************************************************************************)
PairDone == pair.pc = "run" /\ pair.a.pc = "done" /\ pair.b.pc = "done"

\* the pieces of text of a log entry: its message and the texts in its meta
EntryTexts(entry) ==
  {entry.message} \cup
    (IF "meta" \in DOMAIN entry
       THEN {entry.meta[f] :
               f \in (DOMAIN entry.meta) \cap {"message", "error", "searchTerm"}}
       ELSE {})

\* the log entry has the search term v of the call in it
HasTerm(entry, v) ==
  \E txt \in EntryTexts(entry) :
    \E k \in 1 .. Len(txt) :
      /\ "term" \in DOMAIN txt[k]
      /\ v.kind = "string"
      /\ txt[k].term \in {v.val, Trim(v.val)}

\* the search term is logged nowhere by the invocation c, and where an
\* entry has a searchTerm field it holds the placeholder
TermRedacted(c) ==
  \A k \in 1 .. Len(c.log) :
    /\ ~HasTerm(c.log[k], c.args.searchTerm)
    /\ ("meta" \in DOMAIN c.log[k] /\ "searchTerm" \in DOMAIN c.log[k].meta)
         => c.log[k].meta.searchTerm = Words(<<"[REDACTED]">>)

\* the two invocations met the same fate: both were refused by the rate
\* limiter, both reached the external query, or both were refused by the
\* validator with the same message
SameFate(a, b) ==
  /\ a.admitted = b.admitted
  /\ (a.queries = <<>>) = (b.queries = <<>>)
  /\ (a.queries = <<>>) => a.caught = b.caught

Failed(i) == Done(i) /\ calls[i].caught # <<>>

\* the entries in the log of call i that report an error: its message and
\* its kind
DetailEntries(i) ==
  {k \in 1 .. Len(calls[i].log) :
     /\ "meta" \in DOMAIN calls[i].log[k]
     /\ {"message", "type"} \subseteq DOMAIN calls[i].log[k].meta}

\* the entries in the log of call i with the message, the stack, the kind
\* and the context label of the error e
FullDetailEntries(i, e) ==
  {k \in DetailEntries(i) :
     /\ "stack" \in DOMAIN calls[i].log[k].meta
     /\ calls[i].log[k].meta.message = e.message
     /\ calls[i].log[k].meta.type = e.cls
     /\ calls[i].log[k].message = Words(<<"Error", "in", "searchLogs">>)}

Starting(empty) ==
  [pc |-> "start", exit |-> "none", serving |-> FALSE, empty |-> empty,
   log |-> <<>>, health |-> "none"]

LogEntry(sink, message) == [sink |-> sink, message |-> message]

MsgCheckEnv ==
  Words(<<"Please", "check", "your", ".env", "file", "and", "ensure", "all",
          "required", "variables", "are", "set.">>)

\* a catch block that logs a warning and lets the server go on
startCatch_warn(b, pcNext) ==
  [b EXCEPT !.pc = pcNext,
            !.log = loggerWrite(@, 1,
                      LogEntry("logger.warn", Words(<<"Failed", "to", "start", "server:">>)))]

\* catch (error) of startStdioServer and of startHttpServer:
\* logger.error('Failed to start server:', error); process.exit(1)
startCatch(b, pcNext) ==
  [b EXCEPT !.pc = "exited", !.exit = "1",
            !.log = loggerWrite(@, 0,
                      LogEntry("logger.error", Words(<<"Failed", "to", "start", "server:">>)))]

\* a validation that looks at the first required variable only
validateEnvironment_first(env) ==
  IF Required[1] \notin env
    THEN Thrown(ConfigurationError(
           Words(<<"Missing", "required", "environment", "variables:", Required[1]>>)))
    ELSE Returned(env)

\* validateEnvironment() of server-common at the start of either server
validateEnvironment_startup(env) == validateEnvironment(env)

\* the first statement of the try block: validateEnvironment(), which logs
\* and throws when a required variable is missing or empty
BootValidate ==
  /\ boot.pc = "start"
  /\ LET v == validateEnvironment_startup(processEnv) IN
       boot' =
         IF v.ok
           THEN [boot EXCEPT
                   !.pc = "checking",
                   !.log = loggerWrite(@, 2,
                             LogEntry("logger.info",
                                      Words(<<"Environment", "validation", "successful">>)))]
           ELSE startCatch(
                  [boot EXCEPT !.log =
                     loggerWrite(
                       loggerWrite(@, 0, LogEntry("logger.error", v.error.message)),
                       0, LogEntry("logger.error", MsgCheckEnv))],
                  "checking")
  /\ UNCHANGED <<now, limits, hist, toolVars, lam, httpVars, pair, probe>>

\* await performStartupChecks(): a failed health check is logged as an error
\* and a warning and the start goes on; the HTTP server then calls
\* app.listen, the stdio server awaits server.connect(transport)
BootChecked(healthy) ==
  /\ boot.pc = "checking"
  /\ LET log1 == IF healthy
                   THEN loggerWrite(boot.log, 2,
                          LogEntry("logger.info",
                                   Words(<<"Health", "checks", "passed", "successfully">>)))
                   ELSE loggerWrite(
                          loggerWrite(boot.log, 0,
                            LogEntry("logger.error",
                                     Words(<<"Health", "check", "failed", "during", "startup:">>))),
                          1, LogEntry("logger.warn",
                                      Words(<<"Server", "starting", "despite", "health",
                                              "check", "failure.">>)))
     IN boot' = IF serverType = "sse"
                  THEN [boot EXCEPT !.pc = "running", !.serving = TRUE, !.log = log1]
                  ELSE [boot EXCEPT !.pc = "connecting", !.log = log1]
  /\ UNCHANGED <<now, limits, hist, toolVars, lam, httpVars, pair, probe>>

\* await server.connect(transport) of the stdio server resolves or rejects
BootConnected(ok) ==
  /\ boot.pc = "connecting"
  /\ boot' = IF ok THEN [boot EXCEPT !.pc = "running", !.serving = TRUE]
             ELSE startCatch(boot, "running")
  /\ UNCHANGED <<now, limits, hist, toolVars, lam, httpVars, pair, probe>>

\* GET /health of the HTTP server: healthCheck() resolves or rejects (503)
HealthRequest(healthy) ==
  /\ serverType = "sse"
  /\ boot.pc = "running"
  /\ boot' = [boot EXCEPT !.health = IF healthy THEN "healthy" ELSE "unhealthy"]
  /\ UNCHANGED <<now, limits, hist, toolVars, lam, httpVars, pair, probe>>

InitStart ==
  /\ now = 0
  /\ limits = NoLimits
  /\ hist = [c \in ClientIds |-> <<>>]
  /\ serverType \in {"stdio", "sse"}
  /\ processEnv \in SUBSET RequiredKeys
  /\ calls = [i \in CallIds |-> IdleCall]
  /\ admittedBy = {}
  /\ lam = IdleCall
  /\ HttpUnused
  /\ pair = IdleCall
  /\ \E empty \in SUBSET (RequiredKeys \ processEnv) : boot = Starting(empty)
  /\ probe = IdleCall

NextStart ==
  \/ BootValidate
  \/ \E healthy \in BOOLEAN : BootChecked(healthy)
  \/ \E ok \in BOOLEAN : BootConnected(ok)
  \/ \E healthy \in BOOLEAN : HealthRequest(healthy)

SpecStart == InitStart /\ [][NextStart]_vars

(***************************************************************************)
(* C17, C18                                                                *)
(***************************************************************************)
\* a required variable is missing or empty
Unconfigured == processEnv # RequiredKeys

\* validateEnvironment has run
Validated == boot.pc # "start"

\* the entries of the start's log written with the given sink
LoggedWith(sink) ==
  {k \in 1 .. Len(boot.log) : boot.log[k].sink = sink}

C18_WarnedHealthCheck ==
  /\ serverType = "sse"
  /\ boot.serving
  /\ LoggedWith("logger.warn") # {}
  /\ boot.health = "unhealthy"

(***************************************************************************)
(* C19, C20                                                                *)
(***************************************************************************)
\* the step is a checkLimit call of client c
IsCheckLimit(c) == Len(hist'[c]) = Len(hist[c]) + 1

\* whether that call was admitted
Admitted(c) == hist'[c][Len(hist'[c])].ok

\* client c has an entry and the clock reads its resetTime
AtResetTime(c) == c \in DOMAIN limits /\ now = limits[c].resetTime

AdmittedFrom(c, i) ==
  {k \in i .. Len(hist[c]) :
     hist[c][k].ok /\ hist[c][k].t <= hist[c][i].t + windowMs}

ExpiredAt(lim, t) == {c \in DOMAIN lim : t > lim[c].resetTime}

LamInvoked == lam.pc # "idle" /\ lambdaBody(lam.event).ok
LamArgs == lambdaBody(lam.event).val

\* the search term of the invocation has passed validateSearchTerm and
\* sanitizeInput: the query was made, or the next check (the environment)
\* has failed
TermAccepted ==
  \/ lam.queries # <<>>
  \/ lam.result.kind = "threw" /\ lam.result.error.cls = "ConfigurationError"

\* the string has a character of white space
HasSpace(t) == \E i \in 1 .. Len(t) : t[i].ch \in WhiteSpace

C22_TooLongRefused ==
  /\ LamInvoked
  /\ LamArgs.searchTerm = JStr(TermTooLong)
  /\ lam.result.kind = "threw"
  /\ lam.result.error = ValidationError(MsgTooLong)

(***************************************************************************)
(* C23: limit and duration (SpecLambda)                                    *)
(***************************************************************************)
\* the value is omitted, or passes the test
OmittedOr(x, Test(_)) == x.kind = "undefined" \/ Test(x)

\* C23: a limit is accepted exactly when it is an integer in 1..1000 and is
\* 50 when omitted; a duration is accepted exactly when it matches the
\* ISO-8601 pattern of days and/or hours and is 'P7D' when omitted: the
\* query is made exactly when the term, the limit and the duration are
\* acceptable (and the environment is complete), and with these values.
C23_LimitDurationBounds ==
  LamInvoked =>
    LET a == LamArgs IN
      /\ lam.queries # <<>> <=>
           /\ a.searchTerm.kind = "string" /\ ValidTerm(Trim(a.searchTerm.val))
           /\ OmittedOr(a.limit, ValidLimit)
           /\ OmittedOr(a.duration, ValidDuration)
           /\ processEnv = RequiredKeys
      /\ \A k \in 1 .. Len(lam.queries) :
           /\ lam.queries[k].limit = Default(a.limit, JNum(DefaultLimit))
           /\ lam.queries[k].duration = Default(a.duration, JStr(DefaultDuration))

\* the part of C23 about the omitted values: the query is made with limit 50
\* and duration 'P7D' when they are omitted, and otherwise with the values
\* supplied
C23_DefaultsApplied ==
  LamInvoked =>
    \A k \in 1 .. Len(lam.queries) :
      /\ lam.queries[k].limit = Default(LamArgs.limit, JNum(DefaultLimit))
      /\ lam.queries[k].duration = Default(LamArgs.duration, JStr(DefaultDuration))

\* a query was made with the defaults
C23_DefaultsReached ==
  /\ LamInvoked
  /\ LamArgs.limit = JUndef /\ LamArgs.duration = JUndef
  /\ lam.queries = <<[workspaceId |-> "AZURE_MONITOR_WORKSPACE_ID",
                      searchTerm  |-> TermOk,
                      limit       |-> JNum(50),
                      duration    |-> JStr(<<"P", "7", "D">>)]>>

(***************************************************************************)
(* extractClientId and sanitizeError called on their own: SpecHelpers      *)
(***************************************************************************)
\* the request contexts extractClientId is called with: each of the two
\* headers absent, empty, a string or (x-client-id) an array of strings,
\* req.ip and req.socket.remoteAddress absent, empty or an address
ProbeReqs ==
  {NoReq} \cup
  {Req(x, m, i, a) :
     x \in {JUndef, JStr(<<>>), JStr(<<"cA">>), JArr(<<<<"cA">>, <<"cB">>>>)},
     m \in {JUndef, JStr(<<"cM">>)},
     i \in {JUndef, JStr(<<>>), JStr(<<"10.0.0.1">>)},
     a \in {JUndef, JStr(<<"10.0.0.2">>)}}

\* the values sanitizeError is called with
ProbeErrors ==
  {ValidationError(MsgFormat),
   ValidationError(Words(<<"Invalid", "JSON", "in", "request", "body">>)),
   ConfigurationError(Words(<<"Missing", "required", "environment",
                              "variables:", "AZURE_CLIENT_SECRET">>)),
   QueryError(MsgQueryFailed,
              Err("RestError", Words(<<"connect", "ECONNREFUSED", "10.0.0.4:443">>))),
   QueryError(Words(<<"token", "validation", "failed", "for", "tenant", "t-1">>),
              Err("AuthenticationError", Words(<<"AADSTS7000215">>))),
   QueryError(Words(<<"Search", "term", "index", "idx-7", "is", "offline">>),
              Err("RestError", Words(<<"503">>))),
   Err("Error", Words(<<"Search", "term", "cannot", "be", "empty">>)),
   Err("Error", Words(<<"Invalid", "search", "term", "format">>)),
   Err("Error", Words(<<"schema", "validation", "failed">>)),
   Err("Error", Words(<<"Validation", "of", "the", "certificate", "failed">>)),
   Err("RestError", Words(<<"connect", "ECONNREFUSED", "10.0.0.4:443">>)),
   Err("TypeError", Words(<<"Cannot", "read", "properties", "of", "undefined">>)),
   Err("NonError", Words(<<"validation", "timed", "out">>)),
   Err("NonError", Words(<<"ETIMEDOUT">>))}

\* RateLimiter.extractClientId(req) is called
ExtractClientId(req) ==
  /\ probe.pc = "idle"
  /\ probe' = [pc |-> "done", fn |-> "extractClientId", arg |-> req,
               out |-> extractClientId(req), log |-> <<>>]
  /\ UNCHANGED <<now, limits, hist, toolVars, lam, httpVars, pair, boot>>

\* sanitizeError(e, context) is called: it writes one entry with
\* logger.error and returns a message
SanitizeError(e, context) ==
  /\ probe.pc = "idle"
  /\ probe' = [pc |-> "done", fn |-> "sanitizeError", arg |-> e,
               out |-> sanitizeError(e),
               log |-> loggerWrite(<<>>, 0, sanitizeError_logEntry(e, context))]
  /\ UNCHANGED <<now, limits, hist, toolVars, lam, httpVars, pair, boot>>

\* the caller has the value
ProbeEnd ==
  /\ probe.pc = "done"
  /\ probe' = IdleCall
  /\ UNCHANGED <<now, limits, hist, toolVars, lam, httpVars, pair, boot>>

\* the helpers are called while the rate limiter holds no entry or an entry
\* of the shared identity
InitHelpers ==
  /\ now \in 0 .. 1
  /\ limits \in {NoLimits,
                 MapSet(NoLimits, <<"default">>,
                        [count |-> 1, resetTime |-> windowMs])}
  /\ hist = [c \in ClientIds |-> <<>>]
  /\ ToolUnused
  /\ lam = IdleCall
  /\ HttpUnused
  /\ pair = IdleCall
  /\ boot = Started
  /\ probe = IdleCall

NextHelpers ==
  \/ \E req \in ProbeReqs : ExtractClientId(req)
  \/ \E e \in ProbeErrors, context \in {"searchLogs", ""} : SanitizeError(e, context)
  \/ ProbeEnd

SpecHelpers == InitHelpers /\ [][NextHelpers]_vars

(***************************************************************************)
(* C24: extractClientId                                                    *)
(***************************************************************************)
\* extractClientId has returned
Extracted == probe.pc = "done" /\ probe.fn = "extractClientId"

\* the client-identifier header of the request: x-client-id, or
\* mcp-client-id when x-client-id is absent or empty
ClientIdHeader(req) == OrElse(req.xClientId, req.mcpClientId)

\* the network address of the caller: req.ip, or the address of the socket
NetworkAddress(req) == OrElse(req.ip, req.remoteAddress)

\* C24 as stated: the fixed identity when there is no request context;
\* otherwise a present, non-empty client-identifier header verbatim;
\* otherwise the network address; otherwise the sentinel 'unknown'.
C24_HeaderThenAddressThenUnknown ==
  Extracted =>
    LET req == probe.arg IN
      IF ~req.present THEN probe.out = <<"default">>
      ELSE IF Truthy(ClientIdHeader(req))
        THEN probe.out = ClientIdHeader(req).val
      ELSE IF Truthy(NetworkAddress(req))
        THEN probe.out = <<"ip:">> \o NetworkAddress(req).val
      ELSE probe.out = <<"unknown">>

\* C24 amended: extractClientId returns 'default' when no request context
\* is given; otherwise the client-identifier header verbatim when it is a
\* non-empty string, in preference to any network address; otherwise
\* 'ip:' followed by the caller's network address, or 'ip:unknown' when
\* there is none; and the call changes no state.
C24_StringHeaderThenPrefixedAddress ==
  [][(probe'.pc = "done" /\ probe'.fn = "extractClientId") =>
       /\ LET req == probe'.arg
              h == ClientIdHeader(req)
          IN IF ~req.present THEN probe'.out = <<"default">>
             ELSE IF Truthy(h) /\ h.kind = "string" THEN probe'.out = h.val
             ELSE IF Truthy(NetworkAddress(req))
               THEN probe'.out = <<"ip:">> \o NetworkAddress(req).val
             ELSE probe'.out = <<"ip:", "unknown">>
       /\ probe'.log = <<>>
       /\ UNCHANGED <<now, limits, hist, toolVars, lam, httpVars, pair, boot>>]_vars

\* a request with a client-id header and a network address was given the
\* header as its identity, with an entry in the rate limiter's map
C24_Witness ==
  /\ Extracted
  /\ probe.arg.present
  /\ probe.arg.xClientId = JStr(<<"cA">>)
  /\ probe.arg.ip = JStr(<<"10.0.0.1">>)
  /\ probe.out = <<"cA">>
  /\ limits # NoLimits

\* a request with neither header nor address was given 'ip:unknown'
C24_UnknownReached ==
  /\ Extracted
  /\ probe.arg.present
  /\ ~Truthy(ClientIdHeader(probe.arg))
  /\ ~Truthy(NetworkAddress(probe.arg))
  /\ probe.out = <<"ip:", "unknown">>

(***************************************************************************)
(* C25, C27: sanitizeError                                                 *)
(***************************************************************************)
\* sanitizeError has returned
Sanitized == probe.pc = "done" /\ probe.fn = "sanitizeError"

\* the message contains 'Invalid search term', 'Search term' or 'validation'
SafeText(m) ==
  \/ Includes(m, Words(<<"Invalid", "search", "term">>))
  \/ Includes(m, Words(<<"Search", "term">>))
  \/ Includes(m, Words(<<"validation">>))

C27_SafeClassOrSafeText ==
  Sanitized =>
    LET e == probe.arg
        safe == \/ e.cls \in {"ValidationError", "ConfigurationError"}
                \/ e.cls # "NonError" /\ SafeText(e.message)
    IN /\ safe => probe.out = e.message
       /\ ~safe => probe.out = MsgGeneric
       /\ probe.out = e.message <=> safe

\* a plain Error whose message contains 'validation' was given its own
\* message
C27_Witness ==
  /\ Sanitized
  /\ probe.arg = Err("Error", Words(<<"schema", "validation", "failed">>))
  /\ probe.out = probe.arg.message

\* a thrown value that is not an Error and whose text contains 'validation'
\* was given the generic message
C27_NonErrorGeneric ==
  /\ Sanitized
  /\ probe.arg.cls = "NonError"
  /\ SafeText(probe.arg.message)
  /\ probe.out = MsgGeneric

(***************************************************************************)
(* C26: the shape of the envelopes (Spec)                                  *)
(***************************************************************************)
\* the call has ended on the success path
Succeeded(i) == Done(i) /\ calls[i].admitted /\ calls[i].caught = <<>>

\* the call has ended on an error path: refused by the rate limiter, or
\* caught by the handler
Errored(i) == Done(i) /\ (~calls[i].admitted \/ calls[i].caught # <<>>)

\* the element is a text element
IsText(el) == el.type = "text"

\* C26 as stated: a success envelope has exactly two content elements, the
\* text summary and the JSON payload, with isError = false; an error
\* envelope has exactly one text content element with isError = true.
C26_TwoElementsOnSuccess ==
  \A i \in CallIds :
    /\ Succeeded(i) =>
         /\ Len(Envelope(i).content) = 2
         /\ "isError" \in DOMAIN Envelope(i) /\ Envelope(i).isError = FALSE
    /\ Errored(i) =>
         /\ Len(Envelope(i).content) = 1
         /\ IsText(Envelope(i).content[1])
         /\ Envelope(i).isError = TRUE

\* C26 amended: a success envelope has exactly one content element, a text
\* element whose text is the summary followed by the JSON payload, and has
\* no isError field; an error envelope has exactly one text content element
\* with isError = true.
C26_OneElementEach ==
  \A i \in CallIds :
    /\ Succeeded(i) =>
         /\ DOMAIN Envelope(i) = {"content"}
         /\ Len(Envelope(i).content) = 1
         /\ IsText(Envelope(i).content[1])
         /\ LET text == EnvText(i) IN
              /\ SubSeq(text, 1, 2) = Words(<<"Successfully", "retrieved">>)
              /\ \E logs \in QueryResults : text[Len(text)] = [json |-> logs]
    /\ Errored(i) =>
         /\ DOMAIN Envelope(i) = {"content", "isError"}
         /\ Len(Envelope(i).content) = 1
         /\ IsText(Envelope(i).content[1])
         /\ Envelope(i).isError = TRUE

\* a call has returned the success envelope for a result with rows
C26_Witness ==
  \E i \in CallIds :
    /\ Succeeded(i)
    /\ Len(Envelope(i).content) = 1
    /\ EnvText(i)[3] = [num |-> 2]

(***************************************************************************)
(* Calls of the tool handler serviced concurrently: SpecConc               *)
(*                                                                         *)
(* The handler is an async function: it runs from its entry to the await   *)
(* of queryWorkspace without suspension, and again from the settlement of  *)
(* the query to its return.  Several invocations are in progress at once,  *)
(* each suspended at its await; the steps of different invocations         *)
(* interleave in any order.                                                *)
(***************************************************************************)
ConcIds == 1 .. (NumCalls + 1)

\* the invocations: a valid term, whose query resolves, and one that fails
\* validation and ends in the catch block without suspension
ConcRequests ==
  {[req |-> ReqA, args |-> Args(JStr(TermOk), JUndef, JUndef)],
   [req |-> ReqA, args |-> Args(JStr(TermInnerSpace), JUndef, JUndef)]}

\* the handler is invoked while other invocations are suspended; the call
\* of checkLimit it makes is put on record.  The invocations are alike, so
\* a new one is given the first record that is free.
ConcStart(i, req, args) ==
  /\ calls[i].pc = "idle"
  /\ \A j \in 1 .. (i - 1) : calls[j].pc # "idle"
  /\ LET h == handlerStart(limits, now, req, args, processEnv) IN
       /\ Len(hist[h.call.clientId]) < MaxHist
       /\ limits' = h.limits
       /\ calls' = [calls EXCEPT ![i] = h.call]
       /\ hist' = [hist EXCEPT ![h.call.clientId] =
                     Append(@, [t |-> now, ok |-> h.call.admitted])]
       /\ admittedBy' = IF h.call.admitted
                          THEN admittedBy \cup {extractClientId(req)}
                          ELSE admittedBy
  /\ UNCHANGED <<now, serverType, processEnv, lam, httpVars, pair, boot, probe>>

InitConc ==
  /\ now = 0
  /\ limits = NoLimits
  /\ hist = [c \in ClientIds |-> <<>>]
  /\ serverType = "sse"
  /\ processEnv = RequiredKeys
  /\ calls = [i \in ConcIds |-> IdleCall]
  /\ admittedBy = {}
  /\ lam = IdleCall
  /\ HttpUnused
  /\ pair = IdleCall
  /\ boot = Started
  /\ probe = IdleCall

NextConc ==
  \/ TickTool
  \/ CleanupTool
  \/ \E i \in ConcIds, q \in ConcRequests : ConcStart(i, q.req, q.args)
  \/ \E i \in ConcIds : QueryResolves(i, [tables |-> <<>>])
  \/ \E i \in ConcIds : Respond(i)

SpecConc == InitConc /\ [][NextConc]_vars

(***************************************************************************)
(* C28                                                                     *)
(***************************************************************************)
\* the calls on record of client c that fall in the same window as call i
\* and were admitted
AdmittedInWindowOf(c, i) ==
  {k \in 1 .. Len(hist[c]) :
     hist[c][k].ok /\ Opener(hist[c], k) = Opener(hist[c], i)}

\* C28: under any interleaving of the calls in progress, no window of a
\* client admits more than maxRequests calls, and the count of the client's
\* entry is the number of calls admitted in its window: no increment of an
\* admitted call is lost.
C28_AtomicReadCompareUpdate ==
  \A c \in ClientIds :
    /\ \A i \in 1 .. Len(hist[c]) :
         Cardinality(AdmittedInWindowOf(c, i)) <= maxRequests
    /\ (c \in DOMAIN limits /\ hist[c] # <<>>) =>
         limits[c].count = Cardinality(AdmittedInWindowOf(c, Len(hist[c])))

\* two admitted calls of one client are suspended at their await together
\* and the entry of the client counts both
C28_Witness ==
  \E c \in ClientIds :
    /\ c \in DOMAIN limits
    /\ limits[c].count = 2
    /\ Cardinality({i \in ConcIds : calls[i].pc = "awaiting"
                                     /\ calls[i].clientId = c}) >= 2

\* a call of a client was refused while an admitted call of the same client
\* was suspended at its await
C28_RefusedWhileSuspended ==
  \E i, j \in ConcIds :
    /\ calls[i].pc = "awaiting"
    /\ calls[j].pc = "done"
    /\ ~calls[j].admitted
    /\ calls[j].clientId = calls[i].clientId

(***************************************************************************)
(* C29, C30: the entries of the map under checkLimit (SpecRL)              *)
(***************************************************************************)
\* the entry of client c has expired
EntryExpired(c) == c \in DOMAIN limits /\ now > limits[c].resetTime

\* every client has at most one entry, a count and a reset time
OneEntryPerClient(lim) ==
  /\ DOMAIN lim \subseteq ClientIds
  /\ \A c \in DOMAIN lim :
       /\ DOMAIN lim[c] = {"count", "resetTime"}
       /\ lim[c].count \in 1 .. maxRequests
       /\ lim[c].resetTime \in windowMs .. (MaxClock + windowMs)

\* C29: a checkLimit call that finds the entry of its client expired
\* (now > resetTime) admits the call and replaces the entry by count = 1 and
\* resetTime = now + windowMs, counted from the present call and not from
\* the old reset time; the map holds at most one entry per client.
C29_ExpiredEntryReplaced ==
  [][/\ OneEntryPerClient(limits')
     /\ \A c \in ClientIds :
          (EntryExpired(c) /\ IsCheckLimit(c)) =>
            /\ Admitted(c)
            /\ limits'[c] = [count |-> 1, resetTime |-> now + windowMs]
            /\ limits'[c].resetTime > limits[c].resetTime + windowMs]_vars

\* the last call of a client opened a window after an earlier window in
\* which more than one call was admitted; its entry counts one call and
\* ends windowMs after that call
C29_Witness ==
  \E c \in ClientIds :
    /\ Len(hist[c]) >= 3
    /\ hist[c][1].ok /\ hist[c][2].ok
    /\ hist[c][2].t <= hist[c][1].t + windowMs
    /\ Opener(hist[c], Len(hist[c])) = Len(hist[c])
    /\ c \in DOMAIN limits
    /\ limits[c] = [count |-> 1, resetTime |-> hist[c][Len(hist[c])].t + windowMs]

\* C30: a checkLimit call for one client leaves the entry of every other
\* client as it is (present with the same count and reset time, or absent),
\* whether the call is admitted or rejected.
C30_OtherEntriesUntouched ==
  [][\A c \in ClientIds :
       IsCheckLimit(c) =>
         \A d \in ClientIds \ {c} :
           /\ d \in DOMAIN limits' <=> d \in DOMAIN limits
           /\ d \in DOMAIN limits => limits'[d] = limits[d]]_vars

\* a client has opened a second window after another client's entry
\* expired, and the expired entry of the other client is still there
C30_Witness ==
  \E c, d \in ClientIds :
    /\ c # d
    /\ c \in DOMAIN limits /\ d \in DOMAIN limits
    /\ now > limits[d].resetTime
    /\ Len(hist[c]) >= 2
    /\ hist[c][Len(hist[c])].t = now
    /\ Opener(hist[c], Len(hist[c])) = Len(hist[c])

\* a call of a client was rejected while another client had an entry
C30_RejectedBesideOther ==
  \E c, d \in ClientIds :
    /\ c # d
    /\ c \in DOMAIN limits /\ d \in DOMAIN limits
    /\ hist[c] # <<>>
    /\ ~hist[c][Len(hist[c])].ok
    /\ hist[c][Len(hist[c])].t = now

(***************************************************************************)
(* C31, C32, C35: the registry and the transports the route constructs     *)
(* (SpecHttp)                                                              *)
(***************************************************************************)
\* the transport t is registered under the token k
RegisteredUnder(t, k) == k \in DOMAIN transports /\ transports[k] = t

\* C31: each registered token maps to a transport whose own session id is
\* that token, no transport is registered under two tokens, and each
\* transport is connected to a server of its own, which serves no other
\* transport.
C31_RegistryOneToOne ==
  /\ \A k \in DOMAIN transports :
       /\ transports[k] \in DOMAIN transportObjs
       /\ transportObjs[transports[k]].sessionId = k
  /\ \A k1, k2 \in DOMAIN transports :
       transports[k1] = transports[k2] => k1 = k2
  /\ \A t, u \in DOMAIN transportObjs :
       transportObjs[t].server = transportObjs[u].server => t = u

\* two sessions are registered and open at once
C31_Witness ==
  \E k1, k2 \in DOMAIN transports :
    /\ k1 # k2
    /\ ~transportObjs[transports[k1]].closed
    /\ ~transportObjs[transports[k2]].closed

\* C32: once the request for which a transport and a server were
\* constructed and connected has been handled, the transport is registered
\* under a session token or closed: none stays connected and unregistered.
C32_ConstructedIsRegisteredOrClosed ==
  \A r \in McpIds :
    (mcp[r].pc = "done" /\ mcp[r].built = 1 /\ ~mcp[r].threw) =>
      \/ transportObjs[mcp[r].transport].closed
      \/ \E k \in DOMAIN transports : RegisteredUnder(mcp[r].transport, k)

\* C35: a request whose handling threw before the headers were sent is
\* answered with status 500 and the JSON-RPC error object (code -32603,
\* id null), and the transport constructed for it, which has no session, is
\* not in the registry.
C35_ThrowAnswered500 ==
  \A r \in McpIds :
    (mcp[r].pc = "done" /\ mcp[r].threw) =>
      /\ mcp[r].status = 500
      /\ mcp[r].body.jsonrpc = "2.0"
      /\ mcp[r].body.error.code = 0 - 32603
      /\ mcp[r].body.id = "null"
      /\ mcp[r].minted = NoToken
      /\ mcp[r].built = 1 =>
           /\ transportObjs[mcp[r].transport].sessionId = NoToken
           /\ \A k \in DOMAIN transports : ~RegisteredUnder(mcp[r].transport, k)

\* the connection of a transport constructed for an initialize request
\* threw while another session was registered
C35_Witness ==
  \E r \in McpIds :
    /\ mcp[r].pc = "done"
    /\ mcp[r].threw
    /\ mcp[r].built = 1
    /\ mcp[r].kind = "initialize"
    /\ mcp[r].status = 500
    /\ DOMAIN transports # {}

\* a request of a registered session threw inside its transport
C35_ThrowInTransport ==
  \E r \in McpIds :
    /\ mcp[r].pc = "done"
    /\ mcp[r].threw
    /\ mcp[r].built = 0
    /\ mcp[r].token \in DOMAIN transports

(***************************************************************************)
(* C38: the count of a stored entry (SpecRL)                               *)
(***************************************************************************)
\* C38: with maxRequests >= 1, every stored entry has
\* 1 <= count <= maxRequests, whatever checkLimit, cleanup and clearLimit
\* calls and clock advances came before.
C38_CountWithinBounds ==
  maxRequests >= 1 =>
    \A c \in DOMAIN limits :
      1 <= limits[c].count /\ limits[c].count <= maxRequests

\* an entry is full, its client was refused, and an entry of another client
\* was cleared or swept after calls of its own
C38_Witness ==
  \E c, d \in ClientIds :
    /\ c # d
    /\ c \in DOMAIN limits
    /\ limits[c].count = maxRequests
    /\ \E i \in 1 .. Len(hist[c]) : ~hist[c][i].ok
    /\ d \notin DOMAIN limits
    /\ now > 0

(***************************************************************************)
(* Two limiters given the same calls, one of them swept (SpecTwin)         *)
(*                                                                         *)
(* limits is the map of the limiter the setInterval sweep runs on;         *)
(* probe.limits is the map of a limiter that gets the same checkLimit      *)
(* calls at the same clock readings and is never swept.  probe.last keeps  *)
(* the results of the last call.                                           *)
(***************************************************************************)
NoCall == [c |-> Undef, swept |-> TRUE, unswept |-> TRUE, removed |-> FALSE]

InitTwin ==
  /\ now = 0
  /\ limits = NoLimits
  /\ hist = [c \in ClientIds |-> <<>>]
  /\ ToolUnused
  /\ lam = IdleCall
  /\ HttpUnused
  /\ pair = IdleCall
  /\ boot = Started
  /\ probe = [limits |-> NoLimits, last |-> NoCall]

\* checkLimit(c) on both limiters
TwinCheckLimit(c) ==
  /\ LET r == checkLimit(limits, c, now)
         u == checkLimit(probe.limits, c, now) IN
       /\ limits' = r.limits
       /\ probe' = [limits |-> u.limits,
                    last   |-> [c |-> c, swept |-> r.allowed,
                                unswept |-> u.allowed,
                                removed |-> /\ c \notin DOMAIN limits
                                            /\ c \in DOMAIN probe.limits]]
  /\ UNCHANGED <<now, hist, toolVars, lam, httpVars, pair, boot>>

NextTwin ==
  \/ Tick
  \/ \E c \in ClientIds : TwinCheckLimit(c)
  \/ Cleanup

SpecTwin == InitTwin /\ [][NextTwin]_vars

\* setInterval(() => rateLimiter.cleanup(), 60000): the timer keeps firing
SpecTwinLive == InitTwin /\ [][NextTwin]_vars /\ WF_vars(Cleanup)

\* C39: the sweep changes neither the result of a checkLimit call nor the
\* count and remaining that getUsage reports: at every point of every
\* sequence of calls and clock advances, the swept limiter and the limiter
\* that was never swept give the same results for every client.
C39_CleanupInvisible ==
  /\ probe.last.swept = probe.last.unswept
  /\ \A c \in ClientIds :
       /\ checkLimit(limits, c, now).allowed
            = checkLimit(probe.limits, c, now).allowed
       /\ getUsage(limits, c, now).count = getUsage(probe.limits, c, now).count
       /\ getUsage(limits, c, now).remaining
            = getUsage(probe.limits, c, now).remaining

\* a call was made by a client whose entry the sweep had removed, and the
\* other client's entry is full
C39_Witness ==
  /\ probe.last.removed
  /\ probe.last.swept
  /\ \E d \in DOMAIN limits :
       d # probe.last.c /\ limits[d].count = maxRequests

\* a call was refused while the two maps differed
C39_RefusedAfterSweep ==
  /\ ~probe.last.swept
  /\ limits # probe.limits

\* C36: an entry whose window has expired does not stay: the sweep removes
\* it when its client does not call again (the entry leaves the expired
\* state only by being deleted or by being replaced in a call of its own
\* client), provided the sweep timer keeps firing.
C36_ExpiredEventuallyRemoved ==
  /\ \A c \in ClientIds : EntryExpired(c) ~> ~EntryExpired(c)
  /\ [][\A c \in ClientIds :
          (EntryExpired(c) /\ c \in DOMAIN limits') =>
            \/ limits'[c] = limits[c]
            \/ /\ probe'.last.c = c
               /\ limits'[c] = [count |-> 1, resetTime |-> now + windowMs]]_vars

\* the sweep has removed the expired entry of a client who has not called
\* since: the limiter that is never swept still holds it
C36_Witness ==
  \E c \in ClientIds :
    /\ c \notin DOMAIN limits
    /\ c \in DOMAIN probe.limits
    /\ now > probe.limits[c].resetTime
    /\ probe.last.c # c

(***************************************************************************)
(* createLogger and the level of a logger (SpecLog)                        *)
(*                                                                         *)
(* The value of an environment variable is JUndef or a string, here a      *)
(* sequence of characters.  A number is NaN or a record with its value.    *)
(***************************************************************************)
EnvLen == 2
EnvChars == {"0", "1", "2", "3", "4", "-", "x"}
EnvStrings == UNION {[1 .. n -> EnvChars] : n \in 0 .. EnvLen}

LogLevelERROR == 0
LogLevelDEBUG == 3
NaN == [nan |-> TRUE]
Num(v) == [nan |-> FALSE, val |-> v]

IsDigitChar(ch) == ch \in {"0", "1", "2", "3", "4"}
DigitOf(ch) == CHOOSE n \in 0 .. 4 : <<"0", "1", "2", "3", "4">>[n + 1] = ch

\* the value of the longest prefix of digits of s, read after the value v
\* of the digits before it; seen tells whether a digit has been read
RECURSIVE parseDigits(_, _, _)
parseDigits(s, v, seen) ==
  IF s # <<>> /\ IsDigitChar(Head(s))
  THEN parseDigits(Tail(s), 10 * v + DigitOf(Head(s)), TRUE)
  ELSE IF seen THEN Num(v) ELSE NaN

\* parseInt(s, 10): an optional sign, then the digits up to the first
\* character that is not one; NaN without a digit
parseInt(s) ==
  IF s # <<>> /\ Head(s) = "-"
  THEN LET v == parseDigits(Tail(s), 0, FALSE) IN
         IF v.nan THEN NaN ELSE Num(0 - v.val)
  ELSE parseDigits(s, 0, FALSE)

LogEnvs ==
  [LOG_LEVEL : {JUndef} \cup {JStr(v) : v \in EnvStrings},
   NODE_ENV  : {JUndef, JStr("development"), JStr("production")}]

\* createLogger(name) without a level: the level of the logger it returns
createLogger(env) ==
  IF env.LOG_LEVEL # JUndef /\ env.LOG_LEVEL.val # <<>>
  THEN LET envLevel == parseInt(env.LOG_LEVEL.val) IN
         IF ~envLevel.nan /\ envLevel.val >= LogLevelERROR
                          /\ envLevel.val <= LogLevelDEBUG
         THEN envLevel.val ELSE LogLevelINFO
  ELSE IF env.NODE_ENV = JStr("development")
       THEN LogLevelDEBUG ELSE LogLevelINFO

\* a logger that writes only what is below its level
SimpleLogger_log_below(this_level, log, level, entry) ==
  IF level < this_level THEN Append(log, entry) ELSE log

\* SimpleLogger.log(level, ...) of a logger of level this_level
SimpleLogger_log(this_level, log, level, entry) ==
  IF level <= this_level THEN Append(log, entry) ELSE log

\* sanitizeError(e, context) is called in a process with the environment
\* env: createLogger('server-common'), logger.error, the returned message
SanitizeErrorIn(env, e, context) ==
  /\ probe.pc = "idle"
  /\ probe' = [pc |-> "done", fn |-> "sanitizeError", arg |-> e,
               env |-> env, level |-> createLogger(env),
               out |-> sanitizeError(e),
               log |-> SimpleLogger_log(createLogger(env), <<>>, LogLevelERROR,
                                        sanitizeError_logEntry(e, context))]
  /\ UNCHANGED <<now, limits, hist, toolVars, lam, httpVars, pair, boot>>

InitLog ==
  /\ now = 0
  /\ limits = NoLimits
  /\ hist = [c \in ClientIds |-> <<>>]
  /\ ToolUnused
  /\ lam = IdleCall
  /\ HttpUnused
  /\ pair = IdleCall
  /\ boot = Started
  /\ probe = IdleCall

NextLog ==
  \/ \E env \in LogEnvs, e \in ProbeErrors : SanitizeErrorIn(env, e, "searchLogs")
  \/ ProbeEnd

SpecLog == InitLog /\ [][NextLog]_vars

\* C37: at every log level that can be configured (LOG_LEVEL 0 to 3, any
\* other value, or none), every call of sanitizeError writes one
\* error-level entry with the message and the type of the error, also when
\* the returned message is the generic one.
C37_ErrorEntryNeverSuppressed ==
  probe.pc = "done" =>
    /\ probe.level \in LogLevelERROR .. LogLevelDEBUG
    /\ Len(probe.log) = 1
    /\ probe.log[1].sink = "logger.error"
    /\ probe.log[1].meta.message = probe.arg.message

\* LOG_LEVEL is "0", the lowest level, and the caller got the generic
\* message
C37_Witness ==
  /\ probe.pc = "done"
  /\ probe.env.LOG_LEVEL = JStr(<<"0">>)
  /\ probe.level = LogLevelERROR
  /\ probe.out = MsgGeneric
  /\ Len(probe.log) = 1

\* LOG_LEVEL is not a level and the logger has the default level
C37_DefaultLevel ==
  /\ probe.pc = "done"
  /\ probe.env.LOG_LEVEL \in {JStr(<<"4">>), JStr(<<"-", "1">>), JStr(<<"x">>)}
  /\ probe.level = LogLevelINFO

(***************************************************************************)
(* Tool calls while sessions open and close (SpecQuota)                    *)
(*                                                                         *)
(* The network server: sessions are created by initialize requests and     *)
(* closed by their clients (a DELETE, or the connection going away), while *)
(* calls of the tool are started, awaited and answered.  The initialize    *)
(* requests come one after the other, and a call takes the first free      *)
(* slot.                                                                   *)
(***************************************************************************)
QuotaArgs ==
  {Args(JStr(TermOk), JUndef, JUndef), Args(JStr(TermBlank), JUndef, JUndef)}

QuotaFailure == Err("RestError", Words(<<"connect", "ECONNREFUSED", "10.0.0.4:443">>))

InitQuota ==
  /\ now = 0
  /\ limits = NoLimits
  /\ hist = [c \in ClientIds |-> <<>>]
  /\ serverType = "sse"
  /\ processEnv = RequiredKeys
  /\ calls = [i \in CallIds |-> IdleCall]
  /\ admittedBy = {}
  /\ lam = IdleCall
  /\ HttpUnused
  /\ pair = IdleCall
  /\ boot = Started
  /\ probe = IdleCall

NextQuota ==
  \/ TickTool
  \/ CleanupTool
  \/ McpRequest(1, NoToken, "initialize", FALSE)
  \/ McpConnected(1, FALSE)
  \/ McpEnd(1)
  \/ \E t \in 1 .. MaxTransports : TransportCloses(t)
  \/ \E i \in CallIds, a \in QuotaArgs :
       /\ \A j \in 1 .. (i - 1) : calls[j].pc # "idle"
       /\ StartCall(i, ReqA, a)
  \/ \E i \in CallIds : QueryResolves(i, [tables |-> <<>>])
  \/ \E i \in CallIds : QueryRejects(i, QuotaFailure)
  \/ \E i \in CallIds : Respond(i)

SpecQuota == InitQuota /\ [][NextQuota]_vars

\* a session is closed in this step
SessionCloses ==
  \E t \in DOMAIN transportObjs :
    ~transportObjs[t].closed /\ transportObjs'[t].closed

\* C33: the entries of the rate limiter change only in a checkLimit call
\* (made when a call of the tool starts) or in a sweep; the closing of a
\* session, also while a call is awaited, and the end of the external
\* query, by failure or by result, leave every count and reset time as
\* they are.
C33_EntriesChangedOnlyByLimiter ==
  [][/\ limits' # limits =>
          \/ \E i \in CallIds :
               /\ calls[i].pc = "idle"
               /\ calls'[i].pc # "idle"
               /\ limits' = checkLimit(limits, calls'[i].clientId, now).limits
          \/ limits' = cleanup(limits, now)
     /\ SessionCloses => limits' = limits
     /\ \A i \in CallIds :
          (calls[i].pc = "awaiting" /\ calls'[i].pc # "awaiting")
            => limits' = limits]_vars

\* the external query of a call has failed after a session was closed, and
\* the entry of the caller still counts the call
C33_Witness ==
  \E i \in CallIds :
    /\ calls[i].pc = "done"
    /\ calls[i].caught # <<>>
    /\ Len(calls[i].queries) = 1
    /\ \E t \in DOMAIN transportObjs : transportObjs[t].closed
    /\ calls[i].clientId \in DOMAIN limits
    /\ limits[calls[i].clientId].count >= 1
    /\ now <= limits[calls[i].clientId].resetTime

\* a session was closed while a call is awaited and the quota is used up
C33_AbandonedCall ==
  \E i \in CallIds :
    /\ calls[i].pc = "awaiting"
    /\ DOMAIN transportObjs # {}
    /\ \A t \in DOMAIN transportObjs : transportObjs[t].closed
    /\ calls[i].clientId \in DOMAIN limits
    /\ limits[calls[i].clientId].count = maxRequests

(***************************************************************************)
(* C34, C40: the shutdown of the network server (SpecDrain, SpecSignals)   *)
(*                                                                         *)
(* Sessions are created by initialize requests and closed by their         *)
(* clients; a termination signal starts the shutdown handler.  In          *)
(* SpecSignals a second signal may follow while the first handler is at    *)
(* an await.                                                               *)
(***************************************************************************)
NextDrain ==
  \/ \E r \in McpIds : McpRequest(r, NoToken, "initialize", FALSE)
  \/ \E r \in McpIds : McpConnected(r, FALSE)
  \/ \E r \in McpIds : McpEnd(r)
  \/ \E t \in 1 .. MaxTransports : TransportCloses(t)
  \/ Signal
  \/ \E rejects \in BOOLEAN : ShutdownClose(rejects)
  \/ ShutdownExit

SpecDrain == InitHttp /\ [][NextDrain]_vars

NextSignals ==
  \/ NextDrain
  \/ SecondSignal
  \/ \E rejects \in BOOLEAN : SecondClose(rejects)
  \/ SecondExit

SpecSignals == InitHttp /\ [][NextSignals]_vars

\* the transports in a sequence of registry entries or of close attempts
TransportsOf(q) == {q[i] : i \in 1 .. Len(q)}
Attempted == {proc.attempted[i].transport : i \in 1 .. Len(proc.attempted)}

\* C34: a failure to close the transport of one session does not stop the
\* shutdown: the cleanup starts with every session registered when the
\* signal arrived, a close that fails only moves the loop on to the next
\* session, the process exits only when close has been attempted on all of
\* them, and then with status 0.
C34_FailedCloseDoesNotStopShutdown ==
  /\ [](proc.state = "exited" => proc.exit = "0" /\ proc.pending = <<>>)
  /\ [][/\ (proc.state = "running" /\ proc'.state = "shutting") =>
             /\ TransportsOf(proc'.pending)
                  = {transports[k] : k \in DOMAIN transports}
             /\ proc'.attempted = <<>>
        /\ proc.state = "shutting" =>
             /\ TransportsOf(proc'.pending)
                  \cup {proc'.attempted[i].transport :
                          i \in 1 .. Len(proc'.attempted)}
                = TransportsOf(proc.pending) \cup Attempted
             /\ Len(proc'.attempted) > Len(proc.attempted) =>
                  /\ proc'.state = "shutting"
                  /\ proc'.pending = Tail(proc.pending)
                  /\ proc'.attempted[Len(proc'.attempted)].transport
                       = Head(proc.pending)]_vars

\* the process has exited with status 0 after the first close failed and a
\* later one succeeded
C34_Witness ==
  /\ proc.state = "exited"
  /\ proc.exit = "0"
  /\ Len(proc.attempted) >= 2
  /\ ~proc.attempted[1].ok
  /\ \E i \in 2 .. Len(proc.attempted) : proc.attempted[i].ok

\* C40: across the handlers of two termination signals, close is invoked at
\* most once on the transport of each session.
C40_ClosedAtMostOnce ==
  \A i, j \in 1 .. Len(proc.attempted) :
    proc.attempted[i].transport = proc.attempted[j].transport => i = j

\* both handlers have called close on the transport of a session that the
\* first handler had not reached when the second signal arrived
C40_ClosedTwice ==
  \E i, j \in 1 .. Len(proc.attempted) :
    /\ i < j
    /\ proc.attempted[i].transport = proc.attempted[j].transport
    /\ proc.attempted[i].ok
    /\ proc.attempted[j].ok

====
